---- MODULE Spec2Model ----
(***************************************************************************)
(* A model of exif_geolocation_util (src/src/lib.rs, src/src/main.rs): the *)
(* city record codec, the population codec, the sentinel-framed stream     *)
(* codec and the in-memory store.                                          *)
(*                                                                         *)
(* Conventions.  Text and streams are sequences of byte values 0..255.     *)
(* The unsigned 32-bit word of the record codec is kept as two 16-bit      *)
(* halves, so every shift and mask is computed at its width.  An f64 is    *)
(* modelled by the exact rational [num, den] it stands for: rounding of    *)
(* the floating-point operations is not modelled, the truncating cast to   *)
(* u32 is.                                                                 *)
(***************************************************************************)
EXTENDS Integers, Sequences, FiniteSets, TLC

VARIABLES
    \* record codec: write_city_entry then parse_city_entry
    city, wire, write_result, parsed, codec_pc,
    \* population codec: parse_population_string and format_population
    pop_src, pop_text, pop_value, pop_error, pop_formatted, pop_pc

codecVars == <<city, wire, write_result, parsed, codec_pc>>
popVars == <<pop_src, pop_text, pop_value, pop_error, pop_formatted, pop_pc>>

VARIABLES
    \* GeoDatabase: the fields of the database held in memory
    comment, cities, countries, regions, subregions, timezones, features,
    \* GeoDatabase::read_from: the reader, the position in the loops, the locals
    stream, pos, rf_pc, rf_error,
    rf_comment, rf_cities, rf_countries, rf_regions, rf_subregions, rf_timezones, rf_features,
    \* GeoDatabase::write_to: the database that was written and the bytes it gave
    pass, written, out

VARIABLES
    \* parse_pos_string: the text given, the grammar being tried, the result
    pos_text, pos_pc, pos_result

posVars == <<pos_text, pos_pc, pos_result>>

VARIABLES
    \* main: the command line, the position in main, how the process ended, the
    \* files on disk, the paths main created and the lines the list command
    \* printed
    cli_args, cli_pc, cli_exit, fs, cli_written, cli_stdout

cliVars == <<cli_args, cli_pc, cli_exit, fs, cli_written, cli_stdout>>

VARIABLES
    \* the caller of the store: whether the process still runs, the last call made
    \* (operation, argument, outcome, value) and the city list before that call
    alive, last, before

storeVars == <<alive, last, before>>
dbVars == <<comment, cities, countries, regions, subregions, timezones, features>>
rfLocals == <<rf_comment, rf_cities, rf_countries, rf_regions, rf_subregions, rf_timezones, rf_features>>
streamVars == <<stream, pos, rf_pc, rf_error, rfLocals, pass, written, out>>
vars == <<codecVars, popVars, dbVars, streamVars, storeVars, posVars, cliVars>>

----------------------------------------------------------------------------
(* Bounds of the model *)

\* latitudes and longitudes are drawn from a grid of 1/DegUnit degree
DegUnit == 4

\* the number of entries a Vec can take before the allocator gives up
MemLimit == 3

\* add_city is not called on a list of MaxCities cities
MaxCities == 3

----------------------------------------------------------------------------
(* Bytes, bits and text *)

Ord(c) ==
    CASE c = "\t" -> 9   [] c = "\n" -> 10  [] c = "\r" -> 13  [] c = " " -> 32
      [] c = "'" -> 39   [] c = "N" -> 78   [] c = "S" -> 83   [] c = "W" -> 87
      [] c = "d" -> 100  [] c = "g" -> 103  [] c = "m" -> 109  [] c = "s" -> 115
      [] c = "+" -> 43   [] c = "," -> 44   [] c = "-" -> 45   [] c = "." -> 46
      [] c = "0" -> 48   [] c = "1" -> 49   [] c = "2" -> 50   [] c = "3" -> 51
      [] c = "4" -> 52   [] c = "5" -> 53   [] c = "6" -> 54   [] c = "7" -> 55
      [] c = "8" -> 56   [] c = "9" -> 57
      [] c = "A" -> 65   [] c = "B" -> 66   [] c = "E" -> 69   [] c = "G" -> 71
      [] c = "C" -> 67   [] c = "X" -> 88   [] c = "Z" -> 90
      [] c = "a" -> 97   [] c = "c" -> 99   [] c = "e" -> 101  [] c = "i" -> 105
      [] c = "l" -> 108  [] c = "n" -> 110  [] c = "o" -> 111  [] c = "t" -> 116
      [] c = "x" -> 120

\* the bytes of a text given as a sequence of one-character strings
Str(s) == [i \in 1..Len(s) |-> Ord(s[i])]

Pow2(k) == 2 ^ k

RECURSIVE BitAnd(_, _)
BitAnd(a, b) ==
    IF a = 0 \/ b = 0 THEN 0
    ELSE (IF a % 2 = 1 /\ b % 2 = 1 THEN 1 ELSE 0) + 2 * BitAnd(a \div 2, b \div 2)

RECURSIVE BitOr(_, _)
BitOr(a, b) ==
    IF a = 0 THEN b
    ELSE IF b = 0 THEN a
    ELSE (IF a % 2 = 1 \/ b % 2 = 1 THEN 1 ELSE 0) + 2 * BitOr(a \div 2, b \div 2)

\* casts, which truncate
AsU8(n)  == n % 256
AsU16(n) == n % 65536

\* u32 as [hi, lo], two 16-bit halves
AsU32(n) == [hi |-> (n \div 65536) % 65536, lo |-> n % 65536]

\* w << k and w >> k on 32 bits, 0 <= k < 32
Shl32(w, k) ==
    IF k < 16
    THEN [hi |-> (w.hi % Pow2(16 - k)) * Pow2(k) + w.lo \div Pow2(16 - k),
          lo |-> (w.lo % Pow2(16 - k)) * Pow2(k)]
    ELSE [hi |-> (w.lo % Pow2(32 - k)) * Pow2(k - 16), lo |-> 0]

Shr32(w, k) ==
    IF k < 16
    THEN [hi |-> w.hi \div Pow2(k),
          lo |-> (w.hi % Pow2(k)) * Pow2(16 - k) + w.lo \div Pow2(k)]
    ELSE [hi |-> 0, lo |-> w.hi \div Pow2(k - 16)]

Or32(v, w) == [hi |-> BitOr(v.hi, w.hi), lo |-> BitOr(v.lo, w.lo)]

\* big-endian (NetworkEndian) writes and reads
BeU16(n) == <<n \div 256, n % 256>>
BeU32(w) == BeU16(w.hi) \o BeU16(w.lo)
RdU16(d, i) == d[i] * 256 + d[i + 1]
RdU32(d, i) == [hi |-> RdU16(d, i), lo |-> RdU16(d, i + 2)]

RECURSIVE Gcd(_, _)
Gcd(a, b) == IF b = 0 THEN a ELSE Gcd(b, a % b)

\* str::trim_end over the whitespace the model's alphabet holds
IsSpace(b) == b \in {9, 10, 11, 12, 13, 32}

RECURSIVE TrimEnd(_)
TrimEnd(s) ==
    IF s = <<>> THEN s
    ELSE IF IsSpace(s[Len(s)]) THEN TrimEnd(SubSeq(s, 1, Len(s) - 1))
    ELSE s

\* the model's streams carry ASCII and the byte 0xFF, which no UTF-8 text holds
Utf8Valid(s) == \A i \in 1..Len(s) : s[i] < 128

\* index of the first newline at or after position p (1-based), or 0
RECURSIVE FindNl(_, _)
FindNl(s, p) ==
    IF p > Len(s) THEN 0
    ELSE IF s[p] = 10 THEN p
    ELSE FindNl(s, p + 1)

\* read_line(reader) on the stream s whose next unread byte is s[p]:
\* BufRead::read_line takes the bytes up to and including the next newline (or to
\* the end of the stream, possibly none), fails on invalid UTF-8, and the result
\* is trimmed at the end.
read_line(s, p) ==
    LET nl   == FindNl(s, p)
        stop == IF nl = 0 THEN Len(s) ELSE nl
        raw  == SubSeq(s, p, stop)
    IN  IF Utf8Valid(raw)
        THEN [ok |-> TRUE,  line |-> TrimEnd(raw), next |-> stop + 1]
        ELSE [ok |-> FALSE, line |-> <<>>,         next |-> stop + 1]

----------------------------------------------------------------------------
(* Record codec *)

\* ((x + off) / span) * 2^20 as u32: the cast truncates toward zero and
\* saturates below at 0
FixCode(x, off, span) ==
    LET g   == Gcd(Pow2(20), x.den)
        num == (x.num + off * x.den) * (Pow2(20) \div g)
        den == span * (x.den \div g)
    IN  IF num < 0 THEN 0 ELSE num \div den

\* (span * (code / 2^20)) - off
FixDeg(code, off, span) == [num |-> span * code - off * Pow2(20), den |-> Pow2(20)]

write_city_entry(c) ==
    LET lat  == FixCode(c.latitude, 90, 180)
        long == FixCode(c.longitude, 180, 360)
        lt   == AsU16(lat \div 16)
        f    == AsU8(BitOr(BitAnd(lat, 15) * 16, BitAnd(long, 15)))
        ln   == AsU16(long \div 16)
        code == Or32(Or32(Shl32(AsU32(c.country_ix), 24), Shl32(AsU32(c.population), 12)),
                     AsU32(c.region_ix))
        sn   == AsU16(c.subregion_ix)
        tn   == AsU8(BitAnd(c.timezone_ix, 255))
        ftn  == BitOr(AsU8(AsU8(BitAnd(c.timezone_ix, 256)) * 128), AsU8(c.feature_ix))
    IN  [result |-> "Ok",
         bytes  |-> BeU16(lt) \o <<f>> \o BeU16(ln) \o BeU32(code) \o BeU16(sn)
                    \o <<tn, ftn>> \o c.name \o <<10>>]

\* data: the 13 fixed bytes; the name is read from stream s at position p
parse_city_entry(data, s, p) ==
    LET lt   == RdU16(data, 1)
        f    == data[3]
        ln   == RdU16(data, 4)
        code == RdU32(data, 6)
        sn   == RdU16(data, 10)
        tn   == data[12]
        ftn  == data[13]
        rl   == read_line(s, p)
        lat  == lt * 16 + f \div 16
        long == ln * 16 + BitAnd(f, 15)
        c24  == Shr32(code, 24)
        c12  == Shr32(code, 12)
    IN  IF ~rl.ok THEN [result |-> "Err", next |-> rl.next]
        ELSE [result |-> "Ok", next |-> rl.next,
              city |-> [name         |-> rl.line,
                        latitude     |-> FixDeg(lat, 90, 180),
                        longitude    |-> FixDeg(long, 180, 360),
                        population   |-> BitAnd(c12.lo, 4095),
                        country_ix   |-> c24.hi * 65536 + c24.lo,
                        region_ix    |-> BitAnd(code.lo, 4095),
                        subregion_ix |-> sn,
                        timezone_ix  |-> IF BitAnd(ftn, 128) # 0 THEN tn + 256 ELSE tn,
                        feature_ix   |-> BitAnd(ftn, 63)]]

----------------------------------------------------------------------------
(* Inputs of the record codec *)

Deg(n) == [num |-> n, den |-> DegUnit]

LatInputs  == {Deg(-90 * DegUnit), Deg(-90 * DegUnit + 1), Deg(45 * DegUnit + 1), Deg(90 * DegUnit)}
\* 1/180 degree east of the antimeridian: 2^20 / (360 * 180) = 16.18
NearAntimeridian == [num |-> -32399, den |-> 180]

LongInputs == {Deg(-180 * DegUnit), Deg(-1), Deg(180 * DegUnit - 1), NearAntimeridian}
NameInputs == {Str(<<"A">>), Str(<<"A", " ", "B">>), Str(<<"A", " ">>)}

CityInputs ==
    [name         : NameInputs,
     latitude     : LatInputs,
     longitude    : LongInputs,
     population   : {0, 163, 4095, 4096},
     country_ix   : {1, 10, 255, 256},
     region_ix    : {0, 4095, 4096},
     subregion_ix : {0, 65535, 65536},
     timezone_ix  : {0, 255, 256, 511, 512},
     feature_ix   : {0, 63, 64}]

NoCity == [name |-> <<>>, latitude |-> Deg(0), longitude |-> Deg(0), population |-> 0,
           country_ix |-> 0, region_ix |-> 0, subregion_ix |-> 0, timezone_ix |-> 0,
           feature_ix |-> 0]

CodecIdle ==
    /\ city = NoCity
    /\ wire = <<>>
    /\ write_result = "none"
    /\ parsed = [result |-> "none"]
    /\ codec_pc = "idle"

InitCodec ==
    /\ city \in CityInputs
    /\ wire = <<>>
    /\ write_result = "none"
    /\ parsed = [result |-> "none"]
    /\ codec_pc = "start"

\* write_city_entry(writer, &city) into an in-memory writer
WriteCityEntry ==
    /\ codec_pc = "start"
    /\ LET w == write_city_entry(city)
       IN  /\ wire' = w.bytes
           /\ write_result' = w.result
    /\ codec_pc' = "written"
    /\ UNCHANGED <<city, parsed>>

\* the reader side: 13 bytes are taken, then parse_city_entry reads the name line
ParseCityEntry ==
    /\ codec_pc = "written"
    /\ parsed' = parse_city_entry(SubSeq(wire, 1, 13), wire, 14)
    /\ codec_pc' = "parsed"
    /\ UNCHANGED <<city, wire, write_result>>


----------------------------------------------------------------------------
(* Population codec *)

IsDigit(b) == b >= 48 /\ b <= 57

AllDigits(s, from, n) == \A k \in from..(from + n - 1) : IsDigit(s[k])

\* the leftmost-first match of ([\d]+).([\d]+)(?:e|E)\+?([\d]+) anywhere in s, as
\* <<start, length of group 1, length of group 2, 1 if '+' is taken, length of
\* group 3>>, or <<>> when nothing matches.  The pattern is not anchored, '.' is
\* any byte but a newline, and each [\d]+ and the \+? are greedy.
PopulationMatch(s) ==
    LET n  == Len(s)
        \* group 1 and the byte '.' stands for
        M1 == {m \in (1..n) \X (1..n) :
                 /\ m[1] + m[2] <= n
                 /\ AllDigits(s, m[1], m[2])
                 /\ s[m[1] + m[2]] # 10}
        \* group 2 and the exponent letter
        M2 == UNION {{<<m[1], m[2], b>> : b \in {b \in 1..n :
                        /\ m[1] + m[2] + b + 1 <= n
                        /\ AllDigits(s, m[1] + m[2] + 1, b)
                        /\ s[m[1] + m[2] + b + 1] \in {69, 101}}} : m \in M1}
        \* the optional '+'
        M3 == UNION {{<<m[1], m[2], m[3], pl>> : pl \in {pl \in {0, 1} :
                        pl = 1 => /\ m[1] + m[2] + m[3] + 2 <= n
                                  /\ s[m[1] + m[2] + m[3] + 2] = 43}} : m \in M2}
        \* group 3
        M  == UNION {{<<m[1], m[2], m[3], m[4], c>> : c \in {c \in 1..n :
                        /\ m[1] + m[2] + m[3] + 1 + m[4] + c <= n
                        /\ AllDigits(s, m[1] + m[2] + m[3] + 2 + m[4], c)}} : m \in M3}
        Before(m, o) ==
            \/ m[1] < o[1]
            \/ m[1] = o[1] /\ m[2] > o[2]
            \/ m[1] = o[1] /\ m[2] = o[2] /\ m[3] > o[3]
            \/ m[1] = o[1] /\ m[2] = o[2] /\ m[3] = o[3] /\ m[4] > o[4]
            \/ m[1] = o[1] /\ m[2] = o[2] /\ m[3] = o[3] /\ m[4] = o[4] /\ m[5] >= o[5]
    IN  IF M = {} THEN <<>> ELSE CHOOSE m \in M : \A o \in M : Before(m, o)

\* the value of a run of decimal digits
RECURSIVE DigitsValue(_)
DigitsValue(d) ==
    IF d = <<>> THEN 0
    ELSE 10 * DigitsValue(SubSeq(d, 1, Len(d) - 1)) + (d[Len(d)] - 48)

\* str::parse::<u16> of a run of decimal digits
ParseU16(d) ==
    IF Len(d) > 5 \/ DigitsValue(d) > 65535 THEN [ok |-> FALSE, value |-> 0]
    ELSE [ok |-> TRUE, value |-> DigitsValue(d)]

\* the decimal text of a natural number, as "{}" formats it
RECURSIVE Decimal(_)
Decimal(n) == IF n < 10 THEN <<48 + n>> ELSE Decimal(n \div 10) \o <<48 + (n % 10)>>

parse_population_string(s) ==
    IF s = <<48>> THEN [ok |-> TRUE, value |-> 0, err |-> "none"]
    ELSE
        LET m == PopulationMatch(s)
        IN  IF m = <<>> THEN [ok |-> FALSE, value |-> 0, err |-> "parse error"]
            ELSE
                LET integer     == ParseU16(SubSeq(s, m[1], m[1] + m[2] - 1))
                    decimal     == ParseU16(SubSeq(s, m[1] + m[2] + 1, m[1] + m[2] + m[3]))
                    sigFrom     == m[1] + m[2] + m[3] + 2 + m[4]
                    significand == ParseU16(SubSeq(s, sigFrom, sigFrom + m[5] - 1))
                IN  IF ~integer.ok THEN [ok |-> FALSE, value |-> 0, err |-> "whole part not a valid integer"]
                    ELSE IF ~decimal.ok THEN [ok |-> FALSE, value |-> 0, err |-> "decimal part not a valid integer"]
                    ELSE IF ~significand.ok THEN [ok |-> FALSE, value |-> 0, err |-> "significand not a valid integer"]
                    ELSE IF integer.value > 9 THEN [ok |-> FALSE, value |-> 0, err |-> "whole part must be a single digit"]
                    ELSE IF decimal.value > 9 THEN [ok |-> FALSE, value |-> 0, err |-> "decimal part must be a single digit"]
                    ELSE IF significand.value > 15 THEN [ok |-> FALSE, value |-> 0, err |-> "significand must be between 0-15"]
                    ELSE [ok |-> TRUE, err |-> "none",
                          value |-> BitOr(BitOr(AsU16(BitAnd(integer.value, 15) * 256),
                                                AsU16(BitAnd(decimal.value, 15) * 16)),
                                          BitAnd(significand.value, 15))]

\* format_population with the digit nibble left unmasked (pop >> 4 only)
format_population_unmasked(pop) ==
    IF BitAnd(pop, 4080) = 0 THEN <<48>>
    ELSE Decimal(pop \div 256) \o <<46>> \o Decimal(pop \div 16)
         \o <<101, 43>> \o Decimal(BitAnd(pop, 15))

\* format_population testing all twelve bits for zero (pop & 0x0fff)
format_population_allbits(pop) ==
    IF BitAnd(pop, 4095) = 0 THEN <<48>>
    ELSE Decimal(pop \div 256) \o <<46>> \o Decimal(BitAnd(pop \div 16, 15))
         \o <<101, 43>> \o Decimal(BitAnd(pop, 15))

format_population(pop) ==
    IF BitAnd(pop, 4080) = 0 THEN <<48>>
    ELSE Decimal(pop \div 256) \o <<46>> \o Decimal(BitAnd(pop \div 16, 15))
         \o <<101, 43>> \o Decimal(BitAnd(pop, 15))

\* "<d1>.<d2>e+<s>"
PopText(d1, d2, sig) == <<48 + d1, 46, 48 + d2, 101, 43>> \o Decimal(sig)

ValidPopTexts == {<<48>>} \cup {PopText(d1, d2, sig) : d1 \in 0..9, d2 \in 0..9, sig \in 0..15}

\* texts outside the documented grammar
OtherPopTexts ==
    {Str(<<>>), Str(<<"0", "0">>), Str(<<"1", ".", "2", "E", "3">>),
     Str(<<"1", ".", "2", "e", "3">>), Str(<<"1", "x", "2", "e", "+", "3">>),
     Str(<<"x", "1", ".", "2", "e", "+", "3", "x">>),
     Str(<<"1", "2", ".", "3", "e", "+", "4">>), Str(<<"1", ".", "2", "3", "e", "+", "4">>),
     Str(<<"1", ".", "2", "e", "+", "1", "6">>), Str(<<"1", ".", "2", "e", "+", "0", "5">>),
     Str(<<"1", ".", "2", "e", "-", "3">>), Str(<<"1", ".", "2">>),
     Str(<<"1", "2", "3", "e", "4">>)}

PopTexts == ValidPopTexts \cup OtherPopTexts

\* packed u16 values as a city record or a caller may hold them
PackedInputs == 0..4095 \cup {4096, 4101, 8192, 61455, 65535}

PopIdle ==
    /\ pop_src = "none"
    /\ pop_text = <<>>
    /\ pop_value = 0
    /\ pop_error = "none"
    /\ pop_formatted = <<>>
    /\ pop_pc = "idle"

InitPop ==
    /\ pop_error = "none"
    /\ pop_formatted = <<>>
    /\ \/ /\ pop_src = "text"
          /\ pop_text \in PopTexts
          /\ pop_value = 0
          /\ pop_pc = "text"
       \/ /\ pop_src = "packed"
          /\ pop_text = <<>>
          /\ pop_value \in PackedInputs
          /\ pop_pc = "value"

\* parse_population_string(&population), main.rs:332
ParsePopulation ==
    /\ pop_pc = "text"
    /\ LET r == parse_population_string(pop_text)
       IN  /\ pop_value' = r.value
           /\ pop_error' = r.err
           /\ pop_pc' = IF r.ok THEN "value" ELSE "rejected"
    /\ UNCHANGED <<pop_src, pop_text, pop_formatted>>

\* format_population(population), main.rs:345 and lib.rs:256
FormatPopulation ==
    /\ pop_pc = "value"
    /\ pop_formatted' = format_population(pop_value)
    /\ pop_pc' = "formatted"
    /\ UNCHANGED <<pop_src, pop_text, pop_value, pop_error>>

----------------------------------------------------------------------------
(* Coordinate parser: parse_pos_string and the three anchored patterns.     *)
(* A position text is a sequence of characters (code points). A pattern is  *)
(* a sequence of pieces; a piece offers its possible ends in the order the  *)
(* regex engine prefers them (an alternation in the order written, a        *)
(* repetition longest first), and the match is the first combination that   *)
(* reaches the end of the text.                                             *)

\* the length of the run of characters of class starting at position p
RECURSIVE Run(_, _, _)
Run(s, p, class) ==
    IF p <= Len(s) /\ s[p] \in class THEN 1 + Run(s, p + 1, class) ELSE 0

\* from, from - 1, ..., to
Down(from, to) == [k \in 1..(from - to + 1) |-> from + 1 - k]

\* (?:a|b|...): the alternatives that occur at p, in the order written
LitEnds(alts, s, p) ==
    LET occurs(i) == /\ p + Len(alts[i]) - 1 <= Len(s)
                     /\ SubSeq(s, p, p + Len(alts[i]) - 1) = alts[i]
        idx == SelectSeq([i \in 1..Len(alts) |-> i], occurs)
    IN  [k \in 1..Len(idx) |-> p + Len(alts[idx[k]])]

\* [class]* and [class]+ : the longest run first, then shorter ones
RepEnds(class, min, s, p) ==
    LET n == Run(s, p, class)
    IN  IF n < min THEN <<>> ELSE Down(p + n, p + min)

\* \d and \s over the characters of the model
Digits == 48..57
Spaces == {9, 10, 11, 12, 13, 32}

\* (?:.[\d]+)? : any character but a line feed, then digits; or nothing
FracEnds(s, p) ==
    IF p <= Len(s) /\ s[p] # 10 /\ Run(s, p + 1, Digits) >= 1
    THEN Down(p + 1 + Run(s, p + 1, Digits), p + 2) \o <<p>>
    ELSE <<p>>

Ends(piece, s, p) ==
    CASE piece.kind = "lit" -> LitEnds(piece.alts, s, p)
      [] piece.kind = "rep" -> RepEnds(piece.class, piece.min, s, p)
      [] piece.kind = "frac" -> FracEnds(s, p)

Lit(alts) == [kind |-> "lit", alts |-> alts]
Rep(class, min) == [kind |-> "rep", class |-> class, min |-> min]
Frac == [kind |-> "frac"]

\* Regex::captures of ^pattern$ : the end of every piece of the first match
RECURSIVE MatchFrom(_, _, _, _)
RECURSIVE FirstMatch(_, _, _, _)
MatchFrom(pat, k, s, p) ==
    IF k > Len(pat) THEN [ok |-> p = Len(s) + 1, ends |-> <<>>]
    ELSE FirstMatch(Ends(pat[k], s, p), pat, k, s)

FirstMatch(cands, pat, k, s) ==
    IF cands = <<>> THEN [ok |-> FALSE, ends |-> <<>>]
    ELSE LET r == MatchFrom(pat, k + 1, s, cands[1])
         IN  IF r.ok THEN [ok |-> TRUE, ends |-> <<cands[1]>> \o r.ends]
             ELSE FirstMatch(Tail(cands), pat, k, s)

\* the text piece k of a match covers (piece 1 starts at 1)
Piece(s, ends, k) == SubSeq(s, IF k = 1 THEN 1 ELSE ends[k - 1], ends[k] - 1)

\* the text pieces j..k of a match cover
Pieces(s, ends, j, k) == SubSeq(s, IF j = 1 THEN 1 ELSE ends[j - 1], ends[k] - 1)

\* exact fractions for the f64 values of the parser
Frac64(n, d) == LET g == Gcd(IF n < 0 THEN -n ELSE n, d) IN [num |-> n \div g, den |-> d \div g]
FracAdd(a, b) == Frac64(a.num * b.den + b.num * a.den, a.den * b.den)
FracDiv(a, k) == Frac64(a.num, a.den * k)
FracNeg(a) == [num |-> -a.num, den |-> a.den]
FracLess(a, b) == a.num * b.den < b.num * a.den
Whole(n) == [num |-> n, den |-> 1]

\* str::parse::<f64> of digits, or of digits, one more character and digits:
\* a decimal when the character is '.', a power of ten when it is 'e' or 'E'
ParseF64(t) ==
    LET odd == {i \in 1..Len(t) : t[i] \notin Digits} IN
    IF odd = {} THEN [ok |-> TRUE, value |-> Whole(DigitsValue(t))]
    ELSE LET i    == CHOOSE i \in odd : TRUE
             head == SubSeq(t, 1, i - 1)
             tail == SubSeq(t, i + 1, Len(t))
         IN  IF t[i] = 46
             THEN [ok |-> TRUE,
                   value |-> Frac64(DigitsValue(head) * 10 ^ Len(tail) + DigitsValue(tail),
                                    10 ^ Len(tail))]
             ELSE IF t[i] \in {69, 101}
             THEN [ok |-> TRUE, value |-> Whole(DigitsValue(head) * 10 ^ DigitsValue(tail))]
             ELSE [ok |-> FALSE, value |-> Whole(0)]

\* str::parse::<i32> of a run of decimal digits
ParseI32(d) ==
    IF Len(d) > 9 THEN [ok |-> FALSE, value |-> 0]
    ELSE [ok |-> TRUE, value |-> DigitsValue(d)]

Minus == Str(<<"-">>)
South == Str(<<"S">>)
West == Str(<<"W">>)

\* parse_dd without the hemisphere letter: only the sign negates
parse_dd_sign_only(sign, dd, dir, max_abs) ==
    LET v == IF sign = Minus THEN FracNeg(dd) ELSE dd
    IN  IF FracLess(Whole(max_abs), v)
        THEN [ok |-> FALSE, value |-> Whole(0), err |-> "angle cannot be greater than"]
        ELSE IF FracLess(v, Whole(-max_abs))
        THEN [ok |-> FALSE, value |-> Whole(0), err |-> "angle cannot be less than"]
        ELSE [ok |-> TRUE, value |-> v, err |-> "none"]

\* parse_dd without the comparison with max_abs
parse_dd_unbounded(sign, dd, dir, max_abs) ==
    IF sign = Minus /\ dir \in {South, West}
    THEN [ok |-> FALSE, value |-> Whole(0),
          err |-> "a negative angle south or west is likely a mistake so it is disallowed"]
    ELSE [ok |-> TRUE, err |-> "none",
          value |-> IF sign = Minus \/ dir \in {South, West} THEN FracNeg(dd) ELSE dd]

parse_dd(sign, dd, dir, max_abs) ==
    IF sign = Minus /\ dir \in {South, West}
    THEN [ok |-> FALSE, value |-> Whole(0),
          err |-> "a negative angle south or west is likely a mistake so it is disallowed"]
    ELSE LET v == IF sign = Minus \/ dir \in {South, West} THEN FracNeg(dd) ELSE dd
         IN  IF FracLess(Whole(max_abs), v)
             THEN [ok |-> FALSE, value |-> Whole(0), err |-> "angle cannot be greater than"]
             ELSE IF FracLess(v, Whole(-max_abs))
             THEN [ok |-> FALSE, value |-> Whole(0), err |-> "angle cannot be less than"]
             ELSE [ok |-> TRUE, value |-> v, err |-> "none"]

dd_string_to_dd(sign, deg, dir, max_abs) ==
    LET dd == ParseF64(deg) IN
    IF ~dd.ok THEN [ok |-> FALSE, value |-> Whole(0), err |-> "degrees not a valid decimal number"]
    ELSE parse_dd(sign, dd.value, dir, max_abs)

dm_string_to_dd(sign, deg, min, dir, max_abs) ==
    LET d == ParseI32(deg)
        m == ParseF64(min)
    IN  IF ~d.ok THEN [ok |-> FALSE, value |-> Whole(0), err |-> "degrees not a valid integer"]
        ELSE IF ~m.ok
        THEN [ok |-> FALSE, value |-> Whole(0), err |-> "minutes not a valid decimal number"]
        ELSE IF FracLess(m.value, Whole(0)) \/ ~FracLess(m.value, Whole(60))
        THEN [ok |-> FALSE, value |-> Whole(0),
              err |-> "minutes must be between 0 inclusive and 60 exclusive"]
        ELSE parse_dd(sign, FracAdd(Whole(d.value), FracDiv(m.value, 60)), dir, max_abs)

dms_string_to_dd(sign, deg, min, sec, dir, max_abs) ==
    LET d  == ParseI32(deg)
        m  == ParseI32(min)
        sc == ParseF64(sec)
    IN  IF ~d.ok THEN [ok |-> FALSE, value |-> Whole(0), err |-> "degrees not a valid integer"]
        ELSE IF ~m.ok
        THEN [ok |-> FALSE, value |-> Whole(0), err |-> "minutes not a valid integer"]
        ELSE IF m.value < 0 \/ m.value >= 60
        THEN [ok |-> FALSE, value |-> Whole(0),
              err |-> "minutes must be between 0 inclusive and 60 exclusive"]
        ELSE IF ~sc.ok
        THEN [ok |-> FALSE, value |-> Whole(0), err |-> "Seconds not a valid decimal number"]
        ELSE IF FracLess(sc.value, Whole(0)) \/ ~FracLess(sc.value, Whole(60))
        THEN [ok |-> FALSE, value |-> Whole(0),
              err |-> "seconds must be between 0 inclusive and 60 exclusive"]
        ELSE parse_dd(sign,
                      FracAdd(Whole(d.value),
                              FracDiv(FracAdd(Whole(m.value), FracDiv(sc.value, 60)), 60)),
                      dir, max_abs)

\* the tokens of the patterns, each alternation in the order written
SignPiece == Lit(<<Minus, <<>>>>)
\* the degree tokens without the letter spellings
DegTokensSymbolOnly == <<<<176>>>>

DegTokens == <<<<176>>, Str(<<"d">>), Str(<<"d", "e", "g">>)>>
MinTokens == <<Str(<<"'">>), <<8216>>, <<8217>>, Str(<<"m">>), Str(<<"m", "i", "n">>)>>
SecTokens == <<<<34>>, <<8220>>, <<8221>>, Str(<<"s">>), Str(<<"s", "e", "c">>)>>
LatLetters == <<Str(<<"N">>), South>>
LongLetters == <<Str(<<"E">>), West>>
Space0 == Rep(Spaces, 0)
Separator == Rep(Spaces \cup {44}, 0)
Number == <<Rep(Digits, 1), Frac>>

\* (-?)([\d]+(?:.[\d]+)?)[\s]*(?:°|d|deg|)?
regex_dd_part == <<SignPiece>> \o Number \o <<Space0, Lit(DegTokens \o <<<<>>>>)>>

\* ^{}[\s]*(N|S|)[\s,]*{}[\s]*(E|W|)$
regex_dd ==
    regex_dd_part \o <<Space0, Lit(LatLetters \o <<<<>>>>), Separator>>
        \o regex_dd_part \o <<Space0, Lit(LongLetters \o <<<<>>>>)>>

\* (-?)([\d]+)[\s]*(?:°|d|deg)[\s]*([\d]+(?:.[\d]+)?)(?:'|‘|’|m|min)
regex_dm_part ==
    <<SignPiece, Rep(Digits, 1), Space0, Lit(DegTokens), Space0>> \o Number \o <<Lit(MinTokens)>>

\* ^{}[\s]*(N|S)[\s,]*{}[\s]*(E|W)$
regex_dm ==
    regex_dm_part \o <<Space0, Lit(LatLetters), Separator>>
        \o regex_dm_part \o <<Space0, Lit(LongLetters)>>

\* (-?)([\d]+)[\s]*(?:°|d|deg)[\s]*([\d]+)[\s]*(?:'|‘|’|m|min)[\s]*([\d]+(?:.[\d]+)?)(?:"|“|”|s|sec)
regex_dms_part ==
    <<SignPiece, Rep(Digits, 1), Space0, Lit(DegTokens), Space0,
      Rep(Digits, 1), Space0, Lit(MinTokens), Space0>> \o Number \o <<Lit(SecTokens)>>

\* ^{}[\s]*(N|S)[\s,]*{}[\s]*(E|W)$
regex_dms ==
    regex_dms_part \o <<Space0, Lit(LatLetters), Separator>>
        \o regex_dms_part \o <<Space0, Lit(LongLetters)>>

NoMatch == [matched |-> FALSE, ok |-> FALSE, lat |-> Whole(0), long |-> Whole(0), err |-> "none"]

\* lat and long converted in this order, the first error returned
Both(lat, long) ==
    IF ~lat.ok THEN [matched |-> TRUE, ok |-> FALSE, lat |-> Whole(0), long |-> Whole(0), err |-> lat.err]
    ELSE IF ~long.ok
    THEN [matched |-> TRUE, ok |-> FALSE, lat |-> Whole(0), long |-> Whole(0), err |-> long.err]
    ELSE [matched |-> TRUE, ok |-> TRUE, lat |-> lat.value, long |-> long.value, err |-> "none"]

\* if let Some(captures) = regex_dd.captures(dms) { ... }
try_dd(dms) ==
    LET m == MatchFrom(regex_dd, 1, dms, 1)
        e == m.ends
    IN  IF ~m.ok THEN NoMatch
        ELSE Both(dd_string_to_dd(Piece(dms, e, 1), Pieces(dms, e, 2, 3), Piece(dms, e, 7), 90),
                  dd_string_to_dd(Piece(dms, e, 9), Pieces(dms, e, 10, 11), Piece(dms, e, 15), 180))

\* if let Some(captures) = regex_dm.captures(dms) { ... }
try_dm(dms) ==
    LET m == MatchFrom(regex_dm, 1, dms, 1)
        e == m.ends
    IN  IF ~m.ok THEN NoMatch
        ELSE Both(dm_string_to_dd(Piece(dms, e, 1), Piece(dms, e, 2), Pieces(dms, e, 6, 7),
                                  Piece(dms, e, 10), 90),
                  dm_string_to_dd(Piece(dms, e, 12), Piece(dms, e, 13), Pieces(dms, e, 17, 18),
                                  Piece(dms, e, 21), 180))

\* if let Some(captures) = regex_dms.captures(dms) { ... }
try_dms(dms) ==
    LET m == MatchFrom(regex_dms, 1, dms, 1)
        e == m.ends
    IN  IF ~m.ok THEN NoMatch
        ELSE Both(dms_string_to_dd(Piece(dms, e, 1), Piece(dms, e, 2), Piece(dms, e, 6),
                                   Pieces(dms, e, 10, 11), Piece(dms, e, 14), 90),
                  dms_string_to_dd(Piece(dms, e, 16), Piece(dms, e, 17), Piece(dms, e, 21),
                                   Pieces(dms, e, 25, 26), Piece(dms, e, 29), 180))

ParseError == [matched |-> FALSE, ok |-> FALSE, lat |-> Whole(0), long |-> Whole(0), err |-> "parse error"]

parse_pos_string(dms) ==
    LET dd == try_dd(dms) IN
    IF dd.matched THEN dd
    ELSE LET dm == try_dm(dms) IN
         IF dm.matched THEN dm
         ELSE LET sec == try_dms(dms) IN
              IF sec.matched THEN sec ELSE ParseError

\* the texts given to parse_pos_string: the spellings the help text of the add
\* command lists for Point Nemo, and the same shapes with other signs,
\* hemisphere letters and magnitudes
Signs == {<<>>, Minus}
LatLetterInputs == {Str(<<"N">>), South}
LongLetterInputs == {Str(<<"E">>), West}
CommaSpace == Str(<<",", " ">>)

\* a unit style: the three unit tokens, the gap after a token and before a letter
SymbolTight == [deg |-> <<176>>, min |-> Str(<<"'">>), sec |-> <<34>>, gap |-> <<>>]
SymbolLoose == [deg |-> <<176>>, min |-> Str(<<"'">>), sec |-> <<34>>, gap |-> Str(<<" ">>)]
WordStyle == [deg |-> Str(<<"d", "e", "g">>), min |-> Str(<<"m", "i", "n">>),
              sec |-> Str(<<"s", "e", "c">>), gap |-> Str(<<" ">>)]
LetterStyle == [deg |-> Str(<<"d">>), min |-> Str(<<"m">>), sec |-> Str(<<"s">>), gap |-> Str(<<" ">>)]
BareStyle == [deg |-> <<>>, min |-> <<>>, sec |-> <<>>, gap |-> Str(<<" ">>)]
Styles == {SymbolTight, SymbolLoose, WordStyle, LetterStyle}

DDHalf(sign, num, st, letter) ==
    sign \o num \o st.deg \o (IF letter = <<>> THEN <<>> ELSE st.gap \o letter)
DDText(st, s1, n1, l1, s2, n2, l2) ==
    DDHalf(s1, n1, st, l1) \o CommaSpace \o DDHalf(s2, n2, st, l2)

DMHalf(sign, deg, min, st, letter) ==
    sign \o deg \o st.deg \o st.gap \o min \o st.min \o st.gap \o letter
DMText(st, s1, d1, m1, l1, s2, d2, m2, l2) ==
    DMHalf(s1, d1, m1, st, l1) \o CommaSpace \o DMHalf(s2, d2, m2, st, l2)

DMSHalf(sign, deg, min, sec, st, letter) ==
    sign \o deg \o st.deg \o st.gap \o min \o st.min \o st.gap \o sec \o st.sec \o st.gap \o letter
DMSText(st, s1, d1, m1, c1, l1, s2, d2, m2, c2, l2) ==
    DMSHalf(s1, d1, m1, c1, st, l1) \o CommaSpace \o DMSHalf(s2, d2, m2, c2, st, l2)

N48 == Str(<<"4", "8">>)
N123 == Str(<<"1", "2", "3">>)
N4888 == Str(<<"4", "8", ".", "8", "8">>)
N12339 == Str(<<"1", "2", "3", ".", "3", "9">>)
N52 == Str(<<"5", "2">>)
N23 == Str(<<"2", "3">>)
N526 == Str(<<"5", "2", ".", "6">>)
N236 == Str(<<"2", "3", ".", "6">>)
N360 == Str(<<"3", "6", ".", "0">>)
N60 == Str(<<"6", "0">>)
N90 == Str(<<"9", "0">>)
N180 == Str(<<"1", "8", "0">>)
N0 == Str(<<"0">>)

DDInputs ==
    {DDText(st, s1, n1, l1, s2, n2, l2) :
        st \in Styles \cup {BareStyle}, s1 \in Signs, s2 \in Signs,
        n1 \in {N4888, N90, Str(<<"9", "0", ".", "1">>)}, n2 \in {N12339, Str(<<"1", "8", "0", ".", "1">>)},
        l1 \in LatLetterInputs \cup {<<>>}, l2 \in LongLetterInputs \cup {<<>>}}

DMInputs ==
    {DMText(st, s1, d1, m1, l1, s2, d2, m2, l2) :
        st \in Styles, s1 \in Signs, s2 \in Signs,
        d1 \in {N48, N90}, m1 \in {N526, N0, N60}, d2 \in {N123, N180}, m2 \in {N236},
        l1 \in LatLetterInputs, l2 \in LongLetterInputs}

DMSInputs ==
    {DMSText(st, s1, d1, m1, c1, l1, s2, d2, m2, c2, l2) :
        st \in Styles, s1 \in Signs, s2 \in Signs,
        d1 \in {N48, N90}, m1 \in {N52, N60}, c1 \in {N360, N60}, d2 \in {N123}, m2 \in {N23},
        c2 \in {N360, Str(<<"6", "0", ".", "5">>)},
        l1 \in LatLetterInputs, l2 \in LongLetterInputs}

\* texts outside the three shapes, or with a character the patterns let through
OddInputs ==
    {<<>>, N4888,
     Str(<<"4", "8", "x", "8", "8", " ", "S", ",", " ", "1", "2", "3", " ", "W">>),
     Str(<<"4", "e", "1", " ", "S", ",", " ", "1", "e", "2", " ", "W">>),
     Str(<<"4", "8", " ", "1", "2", "3">>),
     Str(<<"4", "8", "d", "5", "2", "m", "S", "1", "2", "3", "d", "2", "3", "m", "W">>),
     N48 \o <<176>> \o N52 \o <<8217>> \o N360 \o <<8221>> \o South \o CommaSpace
         \o N123 \o <<176>> \o N23 \o <<8216>> \o N360 \o <<8220>> \o West,
     DMHalf(<<>>, N48, N526, LetterStyle, <<>>) \o CommaSpace \o DMHalf(<<>>, N123, N236, LetterStyle, <<>>)}

PosInputs == DDInputs \cup DMInputs \cup DMSInputs \cup OddInputs

NoPosResult ==
    [matched |-> FALSE, ok |-> FALSE, lat |-> Whole(0), long |-> Whole(0), err |-> "none",
     grammar |-> "none"]

PosIdle ==
    /\ pos_text = <<>>
    /\ pos_pc = "idle"
    /\ pos_result = NoPosResult

InitPos ==
    /\ pos_text \in PosInputs
    /\ pos_pc = "dd"
    /\ pos_result = NoPosResult

Decided(r, g) ==
    [matched |-> r.matched, ok |-> r.ok, lat |-> r.lat, long |-> r.long, err |-> r.err,
     grammar |-> g]

\* parse_pos_string: the decimal-degrees pattern
TryDD ==
    /\ pos_pc = "dd"
    /\ \E r \in {try_dd(pos_text)} :
          IF r.matched THEN pos_result' = Decided(r, "dd") /\ pos_pc' = "done"
          ELSE pos_pc' = "dm" /\ UNCHANGED pos_result
    /\ UNCHANGED pos_text

\* parse_pos_string: the degree-minutes pattern
TryDM ==
    /\ pos_pc = "dm"
    /\ \E r \in {try_dm(pos_text)} :
          IF r.matched THEN pos_result' = Decided(r, "dm") /\ pos_pc' = "done"
          ELSE pos_pc' = "dms" /\ UNCHANGED pos_result
    /\ UNCHANGED pos_text

\* parse_pos_string: the degree-minutes-seconds pattern, or the parse error
TryDMS ==
    /\ pos_pc = "dms"
    /\ \E r \in {try_dms(pos_text)} :
          /\ pos_result' = IF r.matched THEN Decided(r, "dms") ELSE Decided(ParseError, "none")
          /\ pos_pc' = "done"
    /\ UNCHANGED pos_text

----------------------------------------------------------------------------
(* Stream codec: GeoDatabase::read_from and GeoDatabase::write_to *)

IsRegexSpace(b) == b \in {9, 10, 11, 12, 13, 32}

Geolocation == Str(<<"G", "e", "o", "l", "o", "c", "a", "t", "i", "o", "n">>)
SupportedVersion == Str(<<"1", ".", "0", "3">>)

\* the leftmost-first match of Geolocation([\d]+.[\d]+)[\s]+([\d]+) anywhere in
\* the header line, as <<start, digits before '.', digits after it, spaces,
\* digits of the count>>, or <<>>.  Not anchored; '.' is any byte but a newline.
HeaderMatch(s) ==
    LET n  == Len(s)
        g  == Len(Geolocation)
        M0 == {i \in 1..n : i + g - 1 <= n /\ SubSeq(s, i, i + g - 1) = Geolocation}
        M1 == UNION {{<<i, a>> : a \in {a \in 1..n :
                        /\ i + g + a <= n
                        /\ AllDigits(s, i + g, a)
                        /\ s[i + g + a] # 10}} : i \in M0}
        M2 == UNION {{<<m[1], m[2], b>> : b \in {b \in 1..n :
                        /\ m[1] + g + m[2] + b <= n
                        /\ AllDigits(s, m[1] + g + m[2] + 1, b)}} : m \in M1}
        M3 == UNION {{<<m[1], m[2], m[3], w>> : w \in {w \in 1..n :
                        /\ m[1] + g + m[2] + m[3] + w <= n
                        /\ \A k \in 1..w : IsRegexSpace(s[m[1] + g + m[2] + m[3] + k])}} : m \in M2}
        M  == UNION {{<<m[1], m[2], m[3], m[4], c>> : c \in {c \in 1..n :
                        /\ m[1] + g + m[2] + m[3] + m[4] + c <= n
                        /\ AllDigits(s, m[1] + g + m[2] + m[3] + m[4] + 1, c)}} : m \in M3}
        Before(m, o) ==
            \/ m[1] < o[1]
            \/ m[1] = o[1] /\ m[2] > o[2]
            \/ m[1] = o[1] /\ m[2] = o[2] /\ m[3] > o[3]
            \/ m[1] = o[1] /\ m[2] = o[2] /\ m[3] = o[3] /\ m[4] > o[4]
            \/ m[1] = o[1] /\ m[2] = o[2] /\ m[3] = o[3] /\ m[4] = o[4] /\ m[5] >= o[5]
    IN  IF M = {} THEN <<>> ELSE CHOOSE m \in M : \A o \in M : Before(m, o)

\* parse_header returning the second capture, the city count, for the version
parse_header_count(header) ==
    LET m == HeaderMatch(header)
        g == Len(Geolocation)
        from == IF m = <<>> THEN 1 ELSE m[1] + g + m[2] + m[3] + m[4] + 1
    IN  IF m = <<>> THEN [ok |-> FALSE, version |-> <<>>]
        ELSE [ok |-> TRUE, version |-> SubSeq(header, from, from + m[5] - 1)]

\* parse_header: the version capture, or InvalidHeader
parse_header(header) ==
    LET m == HeaderMatch(header)
        g == Len(Geolocation)
    IN  IF m = <<>> THEN [ok |-> FALSE, version |-> <<>>]
        ELSE [ok |-> TRUE, version |-> SubSeq(header, m[1] + g, m[1] + g + m[2] + m[3])]

CitiesSentinel == <<0, 0, 0, 0, 1, 10>>
TableSentinel(k) == <<0, 0, 0, 0, k>>

RECURSIVE Lines(_)
Lines(t) == IF t = <<>> THEN <<>> ELSE t[1] \o <<10>> \o Lines(Tail(t))

RECURSIVE Records(_)
Records(cs) == IF cs = <<>> THEN <<>> ELSE write_city_entry(cs[1]).bytes \o Records(Tail(cs))

\* the pieces write_to emits, in order: header, comment, the six sections
Sections(d) ==
    << Geolocation \o SupportedVersion \o <<32>> \o Decimal(Len(d.cities)) \o <<10>>,
       d.comment \o <<10>>,
       Records(d.cities) \o CitiesSentinel,
       Lines(d.countries) \o TableSentinel(2) \o <<10>>,
       Lines(d.regions) \o TableSentinel(3) \o <<10>>,
       Lines(d.subregions) \o TableSentinel(4) \o <<10>>,
       Lines(d.timezones) \o TableSentinel(5) \o <<10>>,
       Lines(d.features) \o TableSentinel(0) \o <<10>> >>

RECURSIVE Concat(_)
Concat(ps) == IF ps = <<>> THEN <<>> ELSE ps[1] \o Concat(Tail(ps))

\* write_to emitting the five table sentinels without their newline
write_to_bare_sentinels(d) ==
    Concat([i \in 1..8 |->
              IF i >= 4 THEN SubSeq(Sections(d)[i], 1, Len(Sections(d)[i]) - 1)
              ELSE Sections(d)[i]])

write_to(d) == Concat(Sections(d))

Database ==
    [comment |-> comment, cities |-> cities, countries |-> countries, regions |-> regions,
     subregions |-> subregions, timezones |-> timezones, features |-> features]

NoDatabase ==
    /\ comment = <<>>
    /\ cities = <<>>
    /\ countries = <<>>
    /\ regions = <<>>
    /\ subregions = <<>>
    /\ timezones = <<>>
    /\ features = <<>>

\* reader.read_exact(buf) for n bytes at position p
read_exact(s, p, n) ==
    IF p + n - 1 <= Len(s)
    THEN [ok |-> TRUE,  bytes |-> SubSeq(s, p, p + n - 1), next |-> p + n]
    ELSE [ok |-> FALSE, bytes |-> <<>>,                    next |-> Len(s) + 1]

\* let header_line = read_line(reader)?; let comment = read_line(reader)?;
\* then parse_header and the version test
ReadHeader ==
    /\ rf_pc = "header"
    /\ \E h \in {read_line(stream, pos)} :
       \E c \in {read_line(stream, h.next)} :
       \E v \in {parse_header(h.line)} :
           IF ~h.ok
           THEN /\ pos' = h.next
                /\ rf_pc' = "err" /\ rf_error' = "IoError"
                /\ UNCHANGED rf_comment
           ELSE /\ pos' = c.next
                /\ IF ~c.ok
                   THEN rf_pc' = "err" /\ rf_error' = "IoError" /\ UNCHANGED rf_comment
                   ELSE /\ rf_comment' = c.line
                        /\ IF ~v.ok
                           THEN rf_pc' = "err" /\ rf_error' = "InvalidHeader"
                           ELSE IF v.version # SupportedVersion
                           THEN rf_pc' = "err" /\ rf_error' = "UnsupportedVersion"
                           ELSE rf_pc' = "cities" /\ UNCHANGED rf_error
    /\ UNCHANGED <<stream, pass, written, out, dbVars>>
    /\ UNCHANGED <<rf_cities, rf_countries, rf_regions, rf_subregions, rf_timezones, rf_features>>

\* the 13 bytes of a record once both read_exact calls succeeded, decoded with
\* the name line that follows them
CityAt(head, rest) ==
    IF head.ok /\ rest.ok
    THEN parse_city_entry(head.bytes \o rest.bytes, stream, rest.next)
    ELSE [result |-> "Err", next |-> rest.next]

\* one turn of the cities loop
ReadCity ==
    /\ rf_pc = "cities"
    /\ \E head \in {read_exact(stream, pos, 6)} :
       \E rest \in {read_exact(stream, head.next, 7)} :
       \E c \in {CityAt(head, rest)} :
           IF ~head.ok
           THEN pos' = head.next /\ rf_pc' = "err" /\ rf_error' = "IoError" /\ UNCHANGED rf_cities
           ELSE IF head.bytes = CitiesSentinel
           THEN pos' = head.next /\ rf_pc' = "countries" /\ UNCHANGED <<rf_error, rf_cities>>
           ELSE IF ~rest.ok
           THEN pos' = rest.next /\ rf_pc' = "err" /\ rf_error' = "IoError" /\ UNCHANGED rf_cities
           ELSE IF c.result # "Ok"
           THEN pos' = c.next /\ rf_pc' = "err" /\ rf_error' = "IoError" /\ UNCHANGED rf_cities
           ELSE IF Len(rf_cities) >= MemLimit
           THEN pos' = c.next /\ rf_pc' = "abort" /\ UNCHANGED <<rf_error, rf_cities>>
           ELSE /\ pos' = c.next
                /\ rf_cities' = Append(rf_cities, c.city)
                /\ UNCHANGED <<rf_pc, rf_error>>
    /\ UNCHANGED <<stream, pass, written, out, dbVars>>
    /\ UNCHANGED <<rf_comment, rf_countries, rf_regions, rf_subregions, rf_timezones, rf_features>>

\* one turn of a table loop: read_line(reader)?, the sentinel test, the push
TableTurn(table, k) ==
    LET l == CHOOSE r \in {read_line(stream, pos)} : TRUE
    IN  IF ~l.ok THEN [kind |-> "err", next |-> l.next, table |-> table]
        ELSE IF l.line = TableSentinel(k) THEN [kind |-> "break", next |-> l.next, table |-> table]
        ELSE IF Len(table) >= MemLimit THEN [kind |-> "abort", next |-> l.next, table |-> table]
        ELSE [kind |-> "push", next |-> l.next, table |-> Append(table, l.line)]

\* where a table loop leaves read_from: in the loop, in the next one, failed
TablePc(t, here, then) ==
    /\ pos' = t.next
    /\ rf_pc' = CASE t.kind = "err" -> "err"
                  [] t.kind = "break" -> then
                  [] t.kind = "abort" -> "abort"
                  [] t.kind = "push" -> here
    /\ rf_error' = IF t.kind = "err" THEN "IoError" ELSE rf_error

ReadCountry ==
    /\ rf_pc = "countries"
    /\ \E t \in {TableTurn(rf_countries, 2)} :
           TablePc(t, "countries", "regions") /\ rf_countries' = t.table
    /\ UNCHANGED <<stream, pass, written, out, dbVars>>
    /\ UNCHANGED <<rf_comment, rf_cities, rf_regions, rf_subregions, rf_timezones, rf_features>>

ReadRegion ==
    /\ rf_pc = "regions"
    /\ \E t \in {TableTurn(rf_regions, 3)} :
           TablePc(t, "regions", "subregions") /\ rf_regions' = t.table
    /\ UNCHANGED <<stream, pass, written, out, dbVars>>
    /\ UNCHANGED <<rf_comment, rf_cities, rf_countries, rf_subregions, rf_timezones, rf_features>>

ReadSubregion ==
    /\ rf_pc = "subregions"
    /\ \E t \in {TableTurn(rf_subregions, 4)} :
           TablePc(t, "subregions", "timezones") /\ rf_subregions' = t.table
    /\ UNCHANGED <<stream, pass, written, out, dbVars>>
    /\ UNCHANGED <<rf_comment, rf_cities, rf_countries, rf_regions, rf_timezones, rf_features>>

ReadTimezone ==
    /\ rf_pc = "timezones"
    /\ \E t \in {TableTurn(rf_timezones, 5)} :
           TablePc(t, "timezones", "features") /\ rf_timezones' = t.table
    /\ UNCHANGED <<stream, pass, written, out, dbVars>>
    /\ UNCHANGED <<rf_comment, rf_cities, rf_countries, rf_regions, rf_subregions, rf_features>>

\* the features loop; on its sentinel read_from returns Ok(GeoDatabase{...})
ReadFeature ==
    /\ rf_pc = "features"
    /\ \E t \in {TableTurn(rf_features, 0)} :
           /\ TablePc(t, "features", "ok")
           /\ rf_features' = t.table
           /\ IF t.kind = "break"
              THEN /\ comment' = rf_comment
                   /\ cities' = rf_cities
                   /\ countries' = rf_countries
                   /\ regions' = rf_regions
                   /\ subregions' = rf_subregions
                   /\ timezones' = rf_timezones
                   /\ features' = rf_features
              ELSE UNCHANGED dbVars
    /\ UNCHANGED <<stream, pass, written, out>>
    /\ UNCHANGED <<rf_comment, rf_cities, rf_countries, rf_regions, rf_subregions, rf_timezones>>

\* database.write_to(&mut writer) into an in-memory writer, and a reader opened
\* on what was written
WriteTo ==
    /\ rf_pc = "ok"
    /\ pass = 1
    /\ written' = Database
    /\ out' = write_to(Database)
    /\ stream' = write_to(Database)
    /\ pos' = 1
    /\ pass' = 2
    /\ rf_pc' = "header"
    /\ rf_comment' = <<>>
    /\ rf_cities' = <<>>
    /\ rf_countries' = <<>>
    /\ rf_regions' = <<>>
    /\ rf_subregions' = <<>>
    /\ rf_timezones' = <<>>
    /\ rf_features' = <<>>
    /\ comment' = <<>>
    /\ cities' = <<>>
    /\ countries' = <<>>
    /\ regions' = <<>>
    /\ subregions' = <<>>
    /\ timezones' = <<>>
    /\ features' = <<>>
    /\ UNCHANGED rf_error

----------------------------------------------------------------------------
(* Hierarchical store: add_city, remove_city and the parent lookups *)

\* self.cities.push(city)
\* a variant that refuses a city whose country index names no country
add_city_checked(cs, c) == IF c.country_ix < Len(countries) THEN Append(cs, c) ELSE cs

add_city(cs, c) == Append(cs, c)

\* self.cities.remove(city_ix): Vec::remove panics when city_ix >= len
remove_city(cs, city_ix) ==
    IF city_ix >= Len(cs) THEN [outcome |-> "panic", cities |-> cs]
    ELSE [outcome |-> "Ok",
          cities |-> SubSeq(cs, 1, city_ix) \o SubSeq(cs, city_ix + 2, Len(cs))]

\* a variant that answers from the last matching city of the list
RECURSIVE subregion_parents_last(_, _)
subregion_parents_last(cs, subregion_ix) ==
    IF cs = <<>> THEN [outcome |-> "panic", value |-> <<>>]
    ELSE IF cs[Len(cs)].subregion_ix = subregion_ix
    THEN [outcome |-> "Ok", value |-> <<cs[Len(cs)].region_ix, cs[Len(cs)].country_ix,
                                        cs[Len(cs)].timezone_ix>>]
    ELSE subregion_parents_last(SubSeq(cs, 1, Len(cs) - 1), subregion_ix)

\* for city in &self.cities { if city.subregion_ix == subregion_ix { return ... } }
\* panic!("Didn't find any cities in this subregion")
RECURSIVE subregion_parents(_, _)
subregion_parents(cs, subregion_ix) ==
    IF cs = <<>> THEN [outcome |-> "panic", value |-> <<>>]
    ELSE IF cs[1].subregion_ix = subregion_ix
    THEN [outcome |-> "Ok", value |-> <<cs[1].region_ix, cs[1].country_ix, cs[1].timezone_ix>>]
    ELSE subregion_parents(Tail(cs), subregion_ix)

\* for city in &self.cities { if city.region_ix == region_ix { return city.country_ix } }
\* panic!("Didn't find any cities in this region")
RECURSIVE region_parent(_, _)
region_parent(cs, region_ix) ==
    IF cs = <<>> THEN [outcome |-> "panic", value |-> <<>>]
    ELSE IF cs[1].region_ix = region_ix
    THEN [outcome |-> "Ok", value |-> <<cs[1].country_ix>>]
    ELSE region_parent(Tail(cs), region_ix)

\* name.split(','): the parts between the commas, at least one
RECURSIVE Split(_)
Split(s) ==
    IF \A i \in 1..Len(s) : s[i] # 44 THEN <<s>>
    ELSE LET i == CHOOSE i \in 1..Len(s) : s[i] = 44 /\ \A j \in 1..(i - 1) : s[j] # 44
         IN  <<SubSeq(s, 1, i - 1)>> \o Split(SubSeq(s, i + 1, Len(s)))

\* str::trim: white space off both ends
RECURSIVE TrimStart(_)
TrimStart(s) ==
    IF s = <<>> THEN s
    ELSE IF IsSpace(s[1]) THEN TrimStart(Tail(s))
    ELSE s

Trim(s) == TrimStart(TrimEnd(s))

\* str::contains: needle is a substring of hay
Contains(hay, needle) ==
    \E i \in 1..(Len(hay) + 1) :
        /\ i + Len(needle) - 1 <= Len(hay)
        /\ SubSeq(hay, i, i + Len(needle) - 1) = needle

None == [some |-> FALSE, text |-> <<>>]
Some(t) == [some |-> TRUE, text |-> t]

\* match part { None => true, Some(part) => table[ix].contains(part) }:
\* indexing a Vec past its end panics
PartMatches(part, table, ix) ==
    IF ~part.some THEN "true"
    ELSE IF ix >= Len(table) THEN "panic"
    ELSE IF Contains(table[ix + 1], part.text) THEN "true"
    ELSE "false"

\* a && b, b evaluated only when a is true
AndThen(a, b) == IF a = "true" THEN b ELSE a

\* iter().enumerate().filter(keep).map(|(ix, _)| ix).collect(), keep given as the
\* sequence of its results; a panic in keep ends the call
RECURSIVE Collect(_, _)
Collect(kept, ix) ==
    IF kept = <<>> THEN [outcome |-> "Ok", value |-> <<>>]
    ELSE IF kept[1] = "panic" THEN [outcome |-> "panic", value |-> <<>>]
    ELSE LET rest == Collect(Tail(kept), ix + 1)
         IN  IF rest.outcome = "panic" THEN rest
             ELSE IF kept[1] = "true"
             THEN [outcome |-> "Ok", value |-> <<ix>> \o rest.value]
             ELSE rest

\* the (name, subregion, region, country) a city query of 1..4 parts stands for
CityQueryParts(name_parts) ==
    CASE Len(name_parts) = 1 ->
            [name |-> name_parts[1], subregion |-> None, region |-> None, country |-> None]
      [] Len(name_parts) = 2 ->
            [name |-> Trim(name_parts[1]), subregion |-> None, region |-> None,
             country |-> Some(Trim(name_parts[2]))]
      [] Len(name_parts) = 3 ->
            [name |-> Trim(name_parts[1]), subregion |-> None,
             region |-> Some(Trim(name_parts[2])), country |-> Some(Trim(name_parts[3]))]
      [] Len(name_parts) = 4 ->
            [name |-> Trim(name_parts[1]), subregion |-> Some(Trim(name_parts[2])),
             region |-> Some(Trim(name_parts[3])), country |-> Some(Trim(name_parts[4]))]

\* database.find_matching_cities(name)
find_matching_cities(d, name) ==
    LET name_parts == Split(name) IN
    IF Len(name_parts) > 4 THEN [outcome |-> "panic", value |-> <<>>]
    ELSE LET q == CityQueryParts(name_parts)
             keep(entry) ==
                AndThen(IF entry.name = q.name THEN "true" ELSE "false",
                AndThen(PartMatches(q.country, d.countries, entry.country_ix),
                AndThen(PartMatches(q.region, d.regions, entry.region_ix),
                        PartMatches(q.subregion, d.subregions, entry.subregion_ix))))
         IN  Collect([i \in 1..Len(d.cities) |-> keep(d.cities[i])], 0)

\* the (name, region, country) a subregion query of 1..3 parts stands for
SubregionQueryParts(name_parts) ==
    CASE Len(name_parts) = 1 ->
            [name |-> name_parts[1], region |-> None, country |-> None]
      [] Len(name_parts) = 2 ->
            [name |-> Trim(name_parts[1]), region |-> None, country |-> Some(Trim(name_parts[2]))]
      [] Len(name_parts) = 3 ->
            [name |-> Trim(name_parts[1]), region |-> Some(Trim(name_parts[2])),
             country |-> Some(Trim(name_parts[3]))]

\* database.find_matching_subregions(name)
find_matching_subregions(d, name) ==
    LET name_parts == Split(name) IN
    IF Len(name_parts) > 3 THEN [outcome |-> "panic", value |-> <<>>]
    ELSE LET q == SubregionQueryParts(name_parts)
             keep(subregion_ix) ==
                IF d.subregions[subregion_ix + 1] = q.name
                THEN LET parents == subregion_parents(d.cities, subregion_ix)
                     IN  IF parents.outcome = "panic" THEN "panic"
                         ELSE AndThen(PartMatches(q.country, d.countries, parents.value[2]),
                                      PartMatches(q.region, d.regions, parents.value[1]))
                ELSE "false"
         IN  Collect([i \in 1..Len(d.subregions) |-> keep(i - 1)], 0)

\* the (name, country) a region query of 1..2 parts stands for
RegionQueryParts(name_parts) ==
    CASE Len(name_parts) = 1 -> [name |-> name_parts[1], country |-> None]
      [] Len(name_parts) = 2 -> [name |-> Trim(name_parts[1]), country |-> Some(Trim(name_parts[2]))]

\* database.find_matching_regions(name)
find_matching_regions(d, name) ==
    LET name_parts == Split(name) IN
    IF Len(name_parts) > 2 THEN [outcome |-> "panic", value |-> <<>>]
    ELSE LET q == RegionQueryParts(name_parts)
             keep(region_ix) ==
                IF d.regions[region_ix + 1] = q.name
                THEN LET parent == region_parent(d.cities, region_ix)
                     IN  IF parent.outcome = "panic" THEN "panic"
                         ELSE PartMatches(q.country, d.countries, parent.value[1])
                ELSE "false"
         IN  Collect([i \in 1..Len(d.regions) |-> keep(i - 1)], 0)

\* cities as read_from decodes them from a file
StoreCity(name, sub, reg, ctry) ==
    [name |-> name, latitude |-> FixDeg(786432, 90, 180), longitude |-> FixDeg(516096, 180, 360),
     population |-> 291, country_ix |-> ctry, region_ix |-> reg, subregion_ix |-> sub,
     timezone_ix |-> 0, feature_ix |-> 0]

StoreCityInputs ==
    {StoreCity(Str(<<"A">>), 0, 0, 0),
     StoreCity(Str(<<"A">>), 1, 1, 1),
     StoreCity(Str(<<"B">>), 1, 0, 0),
     \* a country index past the countries table: neither read_from nor add_city checks it
     StoreCity(Str(<<"A">>), 1, 1, 2)}

\* the lists of at most n cities
RECURSIVE CityLists(_)
CityLists(n) ==
    IF n = 0 THEN {<<>>}
    ELSE CityLists(n - 1) \cup {Append(l, c) : l \in {l \in CityLists(n - 1) : Len(l) = n - 1},
                                                c \in StoreCityInputs}

\* the indices a caller passes to the lookups: those of the subregions and
\* regions tables, and one past them
LookupInputs == 0..3

\* the query texts a caller passes to the find functions
QueryInputs ==
    {Str(<<"A">>), Str(<<"B">>), Str(<<"X">>), Str(<<" ", "A">>), Str(<<"A", " ">>),
     Str(<<"A", ",", "G">>), Str(<<"A", ",", " ", "G">>), Str(<<"A", " ", ",", "E">>),
     Str(<<"B", ",", "B">>), Str(<<"A", ",">>),
     Str(<<"A", ",", "A", ",", "G">>), Str(<<"B", ",", "A", ",", "A">>),
     Str(<<"A", ",", "B", ",", "B", ",", "E">>), Str(<<"A", ",", "A", ",", "A", ",", "G">>),
     Str(<<"A", ",", "A", ",", "A", ",", "A", ",", "G">>)}

NoCall == [op |-> "none", arg |-> 0, query |-> <<>>, outcome |-> "none", value |-> <<>>]

StoreIdle ==
    /\ alive = FALSE
    /\ last = NoCall
    /\ before = <<>>

\* a database as read_from returns it: two countries, two regions, three
\* subregions (the third named by no city of the inputs), one timezone, one feature
InitStore ==
    /\ comment = Str(<<"a">>)
    /\ cities \in CityLists(2)
    /\ countries = <<Str(<<"G", "B", "A">>), Str(<<"E", "E", "B">>)>>
    /\ regions = <<Str(<<"A">>), Str(<<"B">>)>>
    /\ subregions = <<Str(<<"A">>), Str(<<"B">>), Str(<<"X">>)>>
    /\ timezones = <<Str(<<"A">>)>>
    /\ features = <<Str(<<"A">>)>>
    /\ alive = TRUE
    /\ last = NoCall
    /\ before = <<>>

\* database.add_city(city)
AddCity ==
    /\ alive
    /\ Len(cities) < MaxCities
    /\ \E c \in StoreCityInputs :
          /\ cities' = add_city(cities, c)
          /\ last' = [op |-> "add_city", arg |-> 0, query |-> <<>>, outcome |-> "Ok", value |-> <<>>]
    /\ before' = cities
    /\ UNCHANGED <<alive, comment, countries, regions, subregions, timezones, features>>

\* database.remove_city(city_ix)
RemoveCity ==
    /\ alive
    /\ \E city_ix \in 0..MaxCities :
       \E r \in {remove_city(cities, city_ix)} :
          /\ cities' = r.cities
          /\ last' = [op |-> "remove_city", arg |-> city_ix, query |-> <<>>, outcome |-> r.outcome, value |-> <<>>]
          /\ alive' = (r.outcome # "panic")
    /\ before' = cities
    /\ UNCHANGED <<comment, countries, regions, subregions, timezones, features>>

\* database.subregion_parents(subregion_ix)
SubregionParents ==
    /\ alive
    /\ \E ix \in LookupInputs :
       \E r \in {subregion_parents(cities, ix)} :
          /\ last' = [op |-> "subregion_parents", arg |-> ix, query |-> <<>>, outcome |-> r.outcome, value |-> r.value]
          /\ alive' = (r.outcome # "panic")
    /\ before' = cities
    /\ UNCHANGED dbVars

\* database.region_parent(region_ix)
RegionParent ==
    /\ alive
    /\ \E ix \in LookupInputs :
       \E r \in {region_parent(cities, ix)} :
          /\ last' = [op |-> "region_parent", arg |-> ix, query |-> <<>>, outcome |-> r.outcome, value |-> r.value]
          /\ alive' = (r.outcome # "panic")
    /\ before' = cities
    /\ UNCHANGED dbVars

\* database.find_matching_cities(name)
FindMatchingCities ==
    /\ alive
    /\ \E name \in QueryInputs :
       \E r \in {find_matching_cities(Database, name)} :
          /\ last' = [op |-> "find_matching_cities", arg |-> 0, query |-> name,
                      outcome |-> r.outcome, value |-> r.value]
          /\ alive' = (r.outcome # "panic")
    /\ before' = cities
    /\ UNCHANGED dbVars

\* database.find_matching_subregions(name)
FindMatchingSubregions ==
    /\ alive
    /\ \E name \in QueryInputs :
       \E r \in {find_matching_subregions(Database, name)} :
          /\ last' = [op |-> "find_matching_subregions", arg |-> 0, query |-> name,
                      outcome |-> r.outcome, value |-> r.value]
          /\ alive' = (r.outcome # "panic")
    /\ before' = cities
    /\ UNCHANGED dbVars

\* database.find_matching_regions(name)
FindMatchingRegions ==
    /\ alive
    /\ \E name \in QueryInputs :
       \E r \in {find_matching_regions(Database, name)} :
          /\ last' = [op |-> "find_matching_regions", arg |-> 0, query |-> name,
                      outcome |-> r.outcome, value |-> r.value]
          /\ alive' = (r.outcome # "panic")
    /\ before' = cities
    /\ UNCHANGED dbVars

----------------------------------------------------------------------------
(* Command line: main. A file on disk is identified with the database that  *)
(* read_from decodes from it and write_to encodes into it.                  *)

\* database.find_matching_features(name)
find_matching_features(d, name) ==
    Collect([i \in 1..Len(d.features) |->
                IF Contains(d.features[i], name) THEN "true" ELSE "false"], 0)

\* database.find_matching_countries(name)
find_matching_countries(d, name) ==
    Collect([i \in 1..Len(d.countries) |->
                IF Contains(d.countries[i], name) THEN "true" ELSE "false"], 0)

\* str::starts_with
StartsWith(s, prefix) == Len(prefix) <= Len(s) /\ SubSeq(s, 1, Len(prefix)) = prefix

\* database.find_matching_timezones(name)
find_matching_timezones(d, name) ==
    Collect([i \in 1..Len(d.timezones) |->
                IF StartsWith(d.timezones[i], name) THEN "true" ELSE "false"], 0)

\* &self.countries[country_ix][2..]: indexing past the table, or slicing a text
\* shorter than the two-letter code, panics
country_name(d, country_ix) ==
    IF country_ix >= Len(d.countries) \/ Len(d.countries[country_ix + 1]) < 2
    THEN [outcome |-> "panic", value |-> <<>>]
    ELSE [outcome |-> "Ok",
          value |-> SubSeq(d.countries[country_ix + 1], 3, Len(d.countries[country_ix + 1]))]

\* for_each(println!) over the lines, each either a text or a panic: the lines
\* before the first panic are printed
RECURSIVE PrintLines(_)
PrintLines(lines) ==
    IF lines = <<>> THEN [outcome |-> "Ok", value |-> <<>>]
    ELSE IF lines[1].outcome = "panic" THEN [outcome |-> "panic", value |-> <<>>]
    ELSE LET rest == PrintLines(Tail(lines))
         IN  [outcome |-> rest.outcome, value |-> <<lines[1].value>> \o rest.value]

Printed(table) == [outcome |-> "Ok", value |-> table]

\* self.regions.iter().enumerate().for_each(|(country_ix, _)|
\*     println!("{}", self.country_name(country_ix)))
print_countires(d) ==
    PrintLines([i \in 1..Len(d.regions) |-> country_name(d, i - 1)])

\* print_cities, print_subregions, print_regions, print_timezones, print_features
print_cities(d) == Printed([i \in 1..Len(d.cities) |-> d.cities[i].name])
print_subregions(d) == Printed(d.subregions)
print_regions(d) == Printed(d.regions)
print_timezones(d) == Printed(d.timezones)
print_features(d) == Printed(d.features)

\* whether print_city_info(city_ix) panics on a table index
CityInfoPanics(d, city_ix) ==
    LET c == d.cities[city_ix + 1]
    IN  \/ c.subregion_ix >= Len(d.subregions)
        \/ c.region_ix >= Len(d.regions)
        \/ country_name(d, c.country_ix).outcome = "panic"
        \/ c.timezone_ix >= Len(d.timezones)
        \/ c.feature_ix >= Len(d.features)

\* whether print_subregion_info(subregion_ix) panics
SubregionInfoPanics(d, subregion_ix) ==
    LET parents == subregion_parents(d.cities, subregion_ix)
    IN  \/ parents.outcome = "panic"
        \/ parents.value[1] >= Len(d.regions)
        \/ country_name(d, parents.value[2]).outcome = "panic"

\* whether print_region_info(region_ix) panics
RegionInfoPanics(d, region_ix) ==
    LET parent == region_parent(d.cities, region_ix)
    IN  parent.outcome = "panic" \/ country_name(d, parent.value[1]).outcome = "panic"

\* print_matching_cities / _subregion / _regions / _country with max_displayed
\* at least the number of matches: "Ok" or "panic"
FindOutcome(d, c) ==
    LET found == CASE c.entry_type = "city" -> find_matching_cities(d, c.name)
                   [] c.entry_type = "sub-region" -> find_matching_subregions(d, c.name)
                   [] c.entry_type = "region" -> find_matching_regions(d, c.name)
                   [] c.entry_type = "country" -> find_matching_countries(d, c.name)
        panics(ix) == CASE c.entry_type = "city" -> CityInfoPanics(d, ix)
                        [] c.entry_type = "sub-region" -> SubregionInfoPanics(d, ix)
                        [] c.entry_type = "region" -> RegionInfoPanics(d, ix)
                        [] c.entry_type = "country" -> FALSE
    IN  IF found.outcome = "panic" THEN "panic"
        ELSE IF \E i \in 1..Len(found.value) : panics(found.value[i]) THEN "panic"
        ELSE "Ok"

NoPath == [some |-> FALSE, path |-> ""]
SomePath(p) == [some |-> TRUE, path |-> p]

NoFile == [exists |-> FALSE, db |-> [comment |-> <<>>, cities |-> <<>>, countries |-> <<>>,
                                     regions |-> <<>>, subregions |-> <<>>, timezones |-> <<>>,
                                     features |-> <<>>]]
FileOfDatabase(d) == [exists |-> TRUE, db |-> d]

\* the databases of the source file: the tables of the store, with two or
\* three regions, and up to two cities
CliDatabases ==
    {[comment |-> Str(<<"a">>), cities |-> cs,
      countries |-> <<Str(<<"G", "B", "A">>), Str(<<"E", "E", "B">>)>>,
      regions |-> rs,
      subregions |-> <<Str(<<"A">>), Str(<<"B">>), Str(<<"X">>)>>,
      timezones |-> <<Str(<<"A">>)>>,
      features |-> <<Str(<<"A">>)>>] :
        cs \in CityLists(2),
        rs \in {<<Str(<<"A">>)>>, <<Str(<<"A">>), Str(<<"B">>)>>,
                <<Str(<<"A">>), Str(<<"B">>), Str(<<"C">>)>>}}

NoCommand ==
    [kind |-> "none", entry_type |-> "none", name |-> <<>>, position |-> <<>>,
     sub_region |-> <<>>, region |-> None, country |-> None, timezone |-> None,
     feature_type |-> <<>>, population |-> <<>>]

\* add city B --position "-48.88, -123.39" --sub-region A --feature-type A,
\* the population left at its default "0.0e+0"
PlainAdd ==
    [NoCommand EXCEPT !.kind = "add", !.entry_type = "city", !.name = Str(<<"B">>),
        !.position = DDText(BareStyle, Minus, N4888, <<>>, Minus, N12339, <<>>),
        !.sub_region = Str(<<"A">>), !.feature_type = Str(<<"A">>),
        !.population = Str(<<"0", ".", "0", "e", "+", "0">>)]

\* the add commands: the plain one, and the plain one with one argument changed
AddInputs ==
    {PlainAdd, [PlainAdd EXCEPT !.entry_type = "region"], [PlainAdd EXCEPT !.position = <<>>]}
    \cup {[PlainAdd EXCEPT !.sub_region = q] : q \in {Str(<<"B">>), Str(<<"X">>), Str(<<"Z">>)}}
    \cup {[PlainAdd EXCEPT !.region = Some(q)] : q \in {Str(<<"B">>), Str(<<"Z">>)}}
    \cup {[PlainAdd EXCEPT !.country = Some(q)] : q \in {Str(<<"E">>), Str(<<"B">>), Str(<<"Z">>)}}
    \cup {[PlainAdd EXCEPT !.timezone = Some(q)] : q \in {Str(<<"A">>), Str(<<"Z">>)}}
    \cup {[PlainAdd EXCEPT !.feature_type = q] : q \in {Str(<<>>), Str(<<"Z">>)}}
    \cup {[PlainAdd EXCEPT !.population = q] : q \in {Str(<<"1", ".", "2", "e", "+", "3">>), Str(<<"x">>)}}

CommandInputs ==
    {[NoCommand EXCEPT !.kind = "info"]}
    \cup {[NoCommand EXCEPT !.kind = "list", !.entry_type = t] :
            t \in {"cities", "sub-regions", "regions", "countries", "timezones", "features"}}
    \cup {[NoCommand EXCEPT !.kind = "find", !.entry_type = t, !.name = q] :
            t \in {"city", "sub-region", "region", "country"},
            q \in {Str(<<"A">>), Str(<<"X">>), Str(<<"A", ",", "G">>)}}
    \cup AddInputs
    \cup {[NoCommand EXCEPT !.kind = "remove", !.entry_type = "city", !.name = q] :
            q \in {Str(<<"A">>), Str(<<"B">>), Str(<<"X">>), Str(<<"A", ",", "G">>)}}
    \cup {[NoCommand EXCEPT !.kind = "remove", !.entry_type = "country", !.name = Str(<<"A">>)]}

CliInputs ==
    [in_file : {"in.dat"}, out_file : {NoPath, SomePath("in.dat"), SomePath("out.dat")},
     overwrite : BOOLEAN, command : CommandInputs]

Running == [code |-> "none", at |-> "none"]

CliIdle ==
    /\ cli_args = [in_file |-> "", out_file |-> NoPath, overwrite |-> FALSE,
                   command |-> NoCommand]
    /\ cli_pc = "idle"
    /\ cli_exit = Running
    /\ fs = [f \in {"in.dat", "out.dat"} |-> NoFile]
    /\ cli_written = {}
    /\ cli_stdout = <<>>

InitCli ==
    /\ cli_args \in CliInputs
    /\ cli_pc = "start"
    /\ cli_exit = Running
    /\ \E d \in CliDatabases : fs = [f \in {"in.dat", "out.dat"} |->
                                        IF f = "in.dat" THEN FileOfDatabase(d) ELSE NoFile]
    /\ cli_written = {}
    /\ cli_stdout = <<>>

\* File::open(&args.in_file), GeoDatabase::read_from(&mut reader)
CliLoad ==
    /\ cli_pc = "start"
    /\ IF fs[cli_args.in_file].exists
       THEN /\ comment' = fs[cli_args.in_file].db.comment
            /\ cities' = fs[cli_args.in_file].db.cities
            /\ countries' = fs[cli_args.in_file].db.countries
            /\ regions' = fs[cli_args.in_file].db.regions
            /\ subregions' = fs[cli_args.in_file].db.subregions
            /\ timezones' = fs[cli_args.in_file].db.timezones
            /\ features' = fs[cli_args.in_file].db.features
            /\ cli_pc' = "loaded"
            /\ UNCHANGED cli_exit
       ELSE /\ cli_pc' = "exit"
            /\ cli_exit' = [code |-> "1", at |-> "load"]
            /\ UNCHANGED dbVars
    /\ UNCHANGED <<cli_args, fs, cli_written, cli_stdout>>

\* Commands::Info: write_out stays false
CliInfo ==
    /\ cli_pc = "loaded"
    /\ cli_args.command.kind = "info"
    /\ cli_pc' = "exit"
    /\ cli_exit' = [code |-> "0", at |-> "command"]
    /\ UNCHANGED <<cli_args, fs, cli_written, cli_stdout, dbVars>>

\* Commands::List: write_out stays false
CliList ==
    /\ cli_pc = "loaded"
    /\ cli_args.command.kind = "list"
    /\ \E r \in {CASE cli_args.command.entry_type = "cities" -> print_cities(Database)
                   [] cli_args.command.entry_type = "sub-regions" -> print_subregions(Database)
                   [] cli_args.command.entry_type = "regions" -> print_regions(Database)
                   [] cli_args.command.entry_type = "countries" -> print_countires(Database)
                   [] cli_args.command.entry_type = "timezones" -> print_timezones(Database)
                   [] cli_args.command.entry_type = "features" -> print_features(Database)} :
          /\ cli_stdout' = r.value
          /\ cli_exit' = [code |-> IF r.outcome = "panic" THEN "panic" ELSE "0",
                          at |-> "command"]
    /\ cli_pc' = "exit"
    /\ UNCHANGED <<cli_args, fs, cli_written, dbVars>>

\* Commands::Find: write_out stays false
CliFind ==
    /\ cli_pc = "loaded"
    /\ cli_args.command.kind = "find"
    /\ cli_exit' = [code |-> IF FindOutcome(Database, cli_args.command) = "panic"
                             THEN "panic" ELSE "0",
                    at |-> "command"]
    /\ cli_pc' = "exit"
    /\ UNCHANGED <<cli_args, fs, cli_written, cli_stdout, dbVars>>

\* a variant that takes the first match when several entries match
ResolveFirst(option, found, otherwise) ==
    IF ~option.some THEN [code |-> "none", ix |-> otherwise]
    ELSE IF found.outcome = "panic" THEN [code |-> "panic", ix |-> 0]
    ELSE IF Len(found.value) = 0 THEN [code |-> "1", ix |-> 0]
    ELSE [code |-> "none", ix |-> found.value[1]]

\* an optional argument of add resolved by find: the index found before when
\* the option is absent, the single match when it is present
Resolve(option, found, otherwise) ==
    IF ~option.some THEN [code |-> "none", ix |-> otherwise]
    ELSE IF found.outcome = "panic" THEN [code |-> "panic", ix |-> 0]
    ELSE IF Len(found.value) # 1 THEN [code |-> "1", ix |-> 0]
    ELSE [code |-> "none", ix |-> found.value[1]]

Failed(code) == [code |-> code, city |-> NoCity]

\* the outcome of Commands::Add: the city to add, or how the process ends
AddOutcome(d, c) ==
    LET position == parse_pos_string(c.position)
        matching_subregions == find_matching_subregions(d, c.sub_region)
    IN  IF c.entry_type # "city" THEN Failed("1")
        ELSE IF ~position.ok THEN Failed("1")
        ELSE IF matching_subregions.outcome = "panic" THEN Failed("panic")
        ELSE IF Len(matching_subregions.value) # 1 THEN Failed("1")
        ELSE
        LET subregion_ix == matching_subregions.value[1]
            parents == subregion_parents(d.cities, subregion_ix)
        IN  IF parents.outcome = "panic" THEN Failed("panic")
            ELSE
            LET region == Resolve(c.region, find_matching_regions(d, c.region.text),
                                  parents.value[1])
                country == Resolve(c.country, find_matching_countries(d, c.country.text),
                                   parents.value[2])
                timezone == Resolve(c.timezone, find_matching_timezones(d, c.timezone.text),
                                    parents.value[3])
                matching_features == find_matching_features(d, c.feature_type)
                population == parse_population_string(c.population)
            IN  IF region.code # "none" THEN Failed(region.code)
                ELSE IF country.code # "none" THEN Failed(country.code)
                ELSE IF timezone.code # "none" THEN Failed(timezone.code)
                ELSE IF Len(matching_features.value) # 1 THEN Failed("1")
                ELSE IF ~population.ok THEN Failed("1")
                \* the "New Entry" report indexes the tables
                ELSE IF \/ region.ix >= Len(d.regions)
                        \/ country_name(d, country.ix).outcome = "panic"
                        \/ timezone.ix >= Len(d.timezones)
                     THEN Failed("panic")
                ELSE [code |-> "none",
                      city |-> [name |-> c.name, latitude |-> position.lat,
                                longitude |-> position.long, population |-> population.value,
                                country_ix |-> country.ix, region_ix |-> region.ix,
                                subregion_ix |-> subregion_ix, timezone_ix |-> timezone.ix,
                                feature_ix |-> matching_features.value[1]]]

\* Commands::Add
CliAdd ==
    /\ cli_pc = "loaded"
    /\ cli_args.command.kind = "add"
    /\ \E r \in {AddOutcome(Database, cli_args.command)} :
          IF r.code = "none"
          THEN /\ cities' = add_city(cities, r.city)
               /\ cli_pc' = "write"
               /\ UNCHANGED cli_exit
          ELSE /\ cli_pc' = "exit"
               /\ cli_exit' = [code |-> r.code, at |-> "command"]
               /\ UNCHANGED cities
    /\ UNCHANGED <<cli_args, fs, cli_written, cli_stdout>>
    /\ UNCHANGED <<comment, countries, regions, subregions, timezones, features>>

\* Commands::Remove
CliRemove ==
    /\ cli_pc = "loaded"
    /\ cli_args.command.kind = "remove"
    /\ IF cli_args.command.entry_type # "city"
       THEN /\ cli_pc' = "exit"
            /\ cli_exit' = [code |-> "1", at |-> "command"]
            /\ UNCHANGED cities
       ELSE \E r \in {find_matching_cities(Database, cli_args.command.name)} :
          IF r.outcome = "panic"
          THEN /\ cli_pc' = "exit"
               /\ cli_exit' = [code |-> "panic", at |-> "command"]
               /\ UNCHANGED cities
          ELSE IF Len(r.value) = 1
          THEN /\ cities' = remove_city(cities, r.value[1]).cities
               /\ cli_pc' = "write"
               /\ UNCHANGED cli_exit
          ELSE /\ cli_pc' = "exit"
               /\ cli_exit' = [code |-> "1", at |-> "command"]
               /\ UNCHANGED cities
    /\ UNCHANGED <<cli_args, fs, cli_written, cli_stdout>>
    /\ UNCHANGED <<comment, countries, regions, subregions, timezones, features>>

\* if write_out { ... File::create(&out_file), database.write_to(&mut writer) }
CliWriteOut ==
    /\ cli_pc = "write"
    /\ IF cli_args.overwrite \/ cli_args.out_file.some
       THEN \E out_file \in {IF cli_args.overwrite THEN cli_args.in_file
                             ELSE cli_args.out_file.path} :
               /\ fs' = [fs EXCEPT ![out_file] = FileOfDatabase(Database)]
               /\ cli_written' = cli_written \cup {out_file}
               /\ cli_exit' = [code |-> "0", at |-> "write"]
       ELSE /\ cli_exit' = [code |-> "1", at |-> "write"]
            /\ UNCHANGED <<fs, cli_written>>
    /\ cli_pc' = "exit"
    /\ UNCHANGED <<cli_args, cli_stdout, dbVars>>

----------------------------------------------------------------------------
(* Inputs of the stream codec *)

CityA ==
    [name |-> Str(<<"A">>), latitude |-> Deg(45 * DegUnit + 1), longitude |-> Deg(-1),
     population |-> 291, country_ix |-> 0, region_ix |-> 0, subregion_ix |-> 0,
     timezone_ix |-> 0, feature_ix |-> 0]

CityB ==
    [name |-> Str(<<"B">>), latitude |-> Deg(-90 * DegUnit), longitude |-> Deg(-180 * DegUnit),
     population |-> 0, country_ix |-> 1, region_ix |-> 1, subregion_ix |-> 1,
     timezone_ix |-> 255, feature_ix |-> 63]

CommentInputs == {Str(<<>>), Str(<<"a">>), Str(<<" ", "a", " ">>), <<255>>}
CitySeqInputs == {<<>>, <<CityA>>, <<CityA, CityB>>}
TableInputs   == {<<>>, <<Str(<<"A">>)>>}

SourceDatabases ==
    [comment : CommentInputs, cities : CitySeqInputs, countries : TableInputs,
     regions : TableInputs, subregions : TableInputs, timezones : TableInputs,
     features : TableInputs]

EmptyDatabases ==
    {d \in SourceDatabases :
        /\ d.cities = <<>> /\ d.countries = <<>> /\ d.regions = <<>>
        /\ d.subregions = <<>> /\ d.timezones = <<>> /\ d.features = <<>>}

GoodHeader == Geolocation \o SupportedVersion \o Str(<<" ", "3">>)

HeaderInputs ==
    {GoodHeader,
     Geolocation \o Str(<<"2", ".", "0", "0", " ", "3">>),
     Geolocation \o Str(<<"1", ".", "0", "3">>),
     Geolocation \o Str(<<"1", "X", "0", "3", " ", "3">>),
     Geolocation \o Str(<<"1", "1", ".", "0", "3", " ", "3">>),
     Geolocation \o Str(<<"1", ".", "0", "3", "0", " ", "3">>),
     Geolocation \o Str(<<"1", "1", "0", "3", " ", "3">>),
     Str(<<"X">>) \o Geolocation \o Str(<<"1", ".", "0", "3", " ", "\t", "1", "2", " ", "X">>),
     Str(<<"1", ".", "0", "3", " ", "3">>),
     Str(<<>>),
     <<255>>}

\* how many bytes of the first missing section a cut-off stream still holds
PartialInputs == {0, 1, 7, 14}

Min(a, b) == IF a < b THEN a ELSE b

\* the file of database d under header h, cut after k whole pieces and p bytes
FileOf(h, d, k, p) ==
    LET ps == [Sections(d) EXCEPT ![1] = h \o <<10>>]
    IN  Concat(SubSeq(ps, 1, k))
        \o (IF k < Len(ps) THEN SubSeq(ps[k + 1], 1, Min(p, Len(ps[k + 1]))) ELSE <<>>)

StreamInputs ==
    {FileOf(GoodHeader, d, k, p) : d \in SourceDatabases, k \in 0..8, p \in PartialInputs}
    \cup {FileOf(h, d, 8, 0) : h \in HeaderInputs, d \in EmptyDatabases}

StreamIdle ==
    /\ stream = <<>>
    /\ pos = 1
    /\ rf_pc = "idle"
    /\ rf_error = "none"
    /\ rf_comment = <<>>
    /\ rf_cities = <<>>
    /\ rf_countries = <<>>
    /\ rf_regions = <<>>
    /\ rf_subregions = <<>>
    /\ rf_timezones = <<>>
    /\ rf_features = <<>>
    /\ pass = 0
    /\ written = [comment |-> <<>>]
    /\ out = <<>>

InitStream ==
    /\ stream = <<>>
    /\ pos = 1
    /\ rf_pc = "closed"
    /\ rf_error = "none"
    /\ rf_comment = <<>>
    /\ rf_cities = <<>>
    /\ rf_countries = <<>>
    /\ rf_regions = <<>>
    /\ rf_subregions = <<>>
    /\ rf_timezones = <<>>
    /\ rf_features = <<>>
    /\ pass = 1
    /\ written = [comment |-> <<>>]
    /\ out = <<>>
    /\ NoDatabase

\* the caller opens a file and hands read_from a reader on its bytes
\* (File::open and BufReader::new, main.rs:148-156)
OpenStream ==
    /\ rf_pc = "closed"
    /\ stream' \in StreamInputs
    /\ rf_pc' = "header"
    /\ UNCHANGED <<pos, rf_error, rfLocals, pass, written, out, dbVars>>

----------------------------------------------------------------------------
(* Specifications: one per component, the other components idle *)

NextCodec ==
    \/ WriteCityEntry /\ UNCHANGED <<popVars, dbVars, streamVars, storeVars, posVars, cliVars>>
    \/ ParseCityEntry /\ UNCHANGED <<popVars, dbVars, streamVars, storeVars, posVars, cliVars>>

CodecSpecInit == InitCodec /\ PopIdle /\ StreamIdle /\ StoreIdle /\ PosIdle /\ CliIdle /\ NoDatabase

CodecSpec == CodecSpecInit /\ [][NextCodec]_vars

NextPop ==
    \/ ParsePopulation /\ UNCHANGED <<codecVars, dbVars, streamVars, storeVars, posVars, cliVars>>
    \/ FormatPopulation /\ UNCHANGED <<codecVars, dbVars, streamVars, storeVars, posVars, cliVars>>

PopSpecInit == InitPop /\ CodecIdle /\ StreamIdle /\ StoreIdle /\ PosIdle /\ CliIdle /\ NoDatabase

PopSpec == PopSpecInit /\ [][NextPop]_vars

NextStream ==
    \/ OpenStream /\ UNCHANGED <<codecVars, popVars, storeVars, posVars, cliVars>>
    \/ ReadHeader /\ UNCHANGED <<codecVars, popVars, storeVars, posVars, cliVars>>
    \/ ReadCity /\ UNCHANGED <<codecVars, popVars, storeVars, posVars, cliVars>>
    \/ ReadCountry /\ UNCHANGED <<codecVars, popVars, storeVars, posVars, cliVars>>
    \/ ReadRegion /\ UNCHANGED <<codecVars, popVars, storeVars, posVars, cliVars>>
    \/ ReadSubregion /\ UNCHANGED <<codecVars, popVars, storeVars, posVars, cliVars>>
    \/ ReadTimezone /\ UNCHANGED <<codecVars, popVars, storeVars, posVars, cliVars>>
    \/ ReadFeature /\ UNCHANGED <<codecVars, popVars, storeVars, posVars, cliVars>>
    \/ WriteTo /\ UNCHANGED <<codecVars, popVars, storeVars, posVars, cliVars>>

\* read_from and write_to are straight-line sequential code: a step that can be
\* taken is taken
StreamSpecInit == InitStream /\ CodecIdle /\ PopIdle /\ StoreIdle /\ PosIdle /\ CliIdle

StreamSpec == StreamSpecInit /\ [][NextStream]_vars /\ WF_vars(NextStream)

Next ==
    \/ AddCity /\ UNCHANGED <<codecVars, popVars, streamVars, posVars, cliVars>>
    \/ RemoveCity /\ UNCHANGED <<codecVars, popVars, streamVars, posVars, cliVars>>
    \/ SubregionParents /\ UNCHANGED <<codecVars, popVars, streamVars, posVars, cliVars>>
    \/ RegionParent /\ UNCHANGED <<codecVars, popVars, streamVars, posVars, cliVars>>
    \/ FindMatchingCities /\ UNCHANGED <<codecVars, popVars, streamVars, posVars, cliVars>>
    \/ FindMatchingSubregions /\ UNCHANGED <<codecVars, popVars, streamVars, posVars, cliVars>>
    \/ FindMatchingRegions /\ UNCHANGED <<codecVars, popVars, streamVars, posVars, cliVars>>

\* the store of a loaded database, and the calls made on it
Init == InitStore /\ CodecIdle /\ PopIdle /\ StreamIdle /\ PosIdle /\ CliIdle

Spec == Init /\ [][Next]_vars

NextPos ==
    \/ TryDD /\ UNCHANGED <<codecVars, popVars, dbVars, streamVars, storeVars, cliVars>>
    \/ TryDM /\ UNCHANGED <<codecVars, popVars, dbVars, streamVars, storeVars, cliVars>>
    \/ TryDMS /\ UNCHANGED <<codecVars, popVars, dbVars, streamVars, storeVars, cliVars>>

PosSpecInit == InitPos /\ CodecIdle /\ PopIdle /\ StreamIdle /\ StoreIdle /\ CliIdle /\ NoDatabase

\* parse_pos_string applied to one text
PosSpec == PosSpecInit /\ [][NextPos]_vars

NextCli ==
    \/ CliLoad /\ UNCHANGED <<codecVars, popVars, streamVars, storeVars, posVars>>
    \/ CliInfo /\ UNCHANGED <<codecVars, popVars, streamVars, storeVars, posVars>>
    \/ CliList /\ UNCHANGED <<codecVars, popVars, streamVars, storeVars, posVars>>
    \/ CliFind /\ UNCHANGED <<codecVars, popVars, streamVars, storeVars, posVars>>
    \/ CliAdd /\ UNCHANGED <<codecVars, popVars, streamVars, storeVars, posVars>>
    \/ CliRemove /\ UNCHANGED <<codecVars, popVars, streamVars, storeVars, posVars>>
    \/ CliWriteOut /\ UNCHANGED <<codecVars, popVars, streamVars, storeVars, posVars>>

CliSpecInit ==
    InitCli /\ CodecIdle /\ PopIdle /\ StreamIdle /\ StoreIdle /\ PosIdle /\ NoDatabase

\* one run of the command line on a source file
CliSpec == CliSpecInit /\ [][NextCli]_vars

----------------------------------------------------------------------------
(* Claims about the record codec (CodecSpec) *)

InRange(c) ==
    /\ c.country_ix <= 255
    /\ c.population <= 4095
    /\ c.region_ix <= 4095
    /\ c.subregion_ix <= 65535
    /\ c.timezone_ix <= 511
    /\ c.feature_ix <= 63

\* |dec - orig| <= span / 2^20, for dec a multiple of 1 / 2^20
WithinStep(orig, dec, span) ==
    LET whole == orig.num \div orig.den
        part  == orig.num - whole * orig.den
        d     == (dec.num - whole * Pow2(20)) * orig.den - part * Pow2(20)
    IN  (IF d < 0 THEN -d ELSE d) <= span * orig.den

\* C1: for every CityEntry with in-range fields, parse_city_entry applied to the
\* output of write_city_entry yields the identical name, population, country_ix,
\* region_ix, subregion_ix, timezone_ix (256..511 included) and feature_ix.
C1_RoundTripFields ==
    (codec_pc = "parsed" /\ InRange(city)) =>
        /\ parsed.result = "Ok"
        /\ parsed.city.name = city.name
        /\ parsed.city.population = city.population
        /\ parsed.city.country_ix = city.country_ix
        /\ parsed.city.region_ix = city.region_ix
        /\ parsed.city.subregion_ix = city.subregion_ix
        /\ parsed.city.timezone_ix = city.timezone_ix
        /\ parsed.city.feature_ix = city.feature_ix

\* C2: write_city_entry returns an error and emits no record whenever a field
\* of the city is out of range.
C2_OutOfRangeIsError ==
    (codec_pc # "start" /\ ~InRange(city)) => (write_result = "Err" /\ wire = <<>>)

\* C3: for latitude in [-90, 90] and longitude in [-180, 180), the decoded
\* latitude and longitude differ from the originals by at most 180/2^20 and
\* 360/2^20 degrees.
C3_RoundTripPosition ==
    (/\ codec_pc = "parsed"
     /\ parsed.result = "Ok"
     /\ -90 * city.latitude.den <= city.latitude.num
     /\ city.latitude.num <= 90 * city.latitude.den
     /\ -180 * city.longitude.den <= city.longitude.num
     /\ city.longitude.num < 180 * city.longitude.den) =>
        /\ WithinStep(city.latitude, parsed.city.latitude, 180)
        /\ WithinStep(city.longitude, parsed.city.longitude, 360)

\* C17: the cities sentinel 00 00 00 00 01 0A is never the first 6 bytes of a
\* record write_city_entry produces for a city with in-range fields, so the
\* cities loop of read_from, which ends the section when the first 6 bytes of a
\* record equal the sentinel, ends it only at the sentinel.
C17_SentinelNeverARecord ==
    (codec_pc \in {"written", "parsed"} /\ InRange(city)) =>
        read_exact(wire, 1, 6).bytes # CitiesSentinel

----------------------------------------------------------------------------
(* Claims about the population codec (PopSpec) *)

\* C4, as stated: format_population(parse_population_string(s)) = s for every
\* valid text s, "0" and every "<d1>.<d2>e+<s>" with d1, d2 in 0..9 and s in
\* 0..15, the texts with d1 = d2 = 0 included.
C4_FormatParseIdentity ==
    (pop_src = "text" /\ pop_text \in ValidPopTexts) =>
        /\ pop_pc # "rejected"
        /\ pop_pc = "formatted" => pop_formatted = pop_text

BothDigitsZero(t) == Len(t) >= 3 /\ t[1] = 48 /\ t[3] = 48

\* C4, amended: every valid text is accepted; format(parse(s)) = s for "0" and
\* for every "<d1>.<d2>e+<s>" whose digits d1, d2 are not both 0; a text with
\* d1 = d2 = 0 formats as "0".
C4_FormatParseIdentityNonZero ==
    (pop_src = "text" /\ pop_text \in ValidPopTexts) =>
        /\ pop_pc # "rejected"
        /\ pop_pc = "formatted" =>
              pop_formatted = (IF BothDigitsZero(pop_text) THEN <<48>> ELSE pop_text)

\* a text with a two-digit significand has been parsed and formatted back
C4_Witness ==
    /\ pop_pc = "formatted"
    /\ pop_src = "text"
    /\ pop_text \in ValidPopTexts
    /\ Len(pop_text) = 7
    /\ pop_formatted = pop_text

\* C5: parse_population_string("0") is 0, format_population(0) is "0", and
\* format_population gives "0" for every packed value whose bits 4..11 are all
\* zero, whatever its low nibble is.
C5_ZeroCollapse ==
    /\ (pop_src = "text" /\ pop_text = <<48>>) =>
          (pop_pc # "rejected" /\ (pop_pc \in {"value", "formatted"} => pop_value = 0))
    /\ (pop_pc = "formatted" /\ pop_value = 0) => pop_formatted = <<48>>
    /\ (pop_pc = "formatted" /\ (pop_value \div 16) % 256 = 0) => pop_formatted = <<48>>

\* a packed value with zero digit nibbles and a non-zero low nibble was formatted
C5_Witness ==
    /\ pop_pc = "formatted"
    /\ pop_src = "packed"
    /\ (pop_value \div 16) % 256 = 0
    /\ pop_value % 16 # 0

\* C21: parse_population_string accepts only "0" and the whole texts
\* "<d1>.<d2>e+<s>" with d1, d2 single digits and s in 0..15, and returns a
\* validation error for every other text; an accepted value is d1 in bits
\* 8..11, d2 in bits 4..7, s in bits 0..3, with the top nibble zero.
C21_PopulationGrammar ==
    (pop_src = "text" /\ pop_pc # "text") =>
        /\ pop_text \notin ValidPopTexts => pop_pc = "rejected"
        /\ pop_pc # "rejected" =>
              /\ pop_value < 4096
              /\ \/ pop_text = <<48>> /\ pop_value = 0
                 \/ \E d1, d2 \in 0..9, sig \in 0..15 :
                       /\ pop_text = PopText(d1, d2, sig)
                       /\ pop_value = d1 * 256 + d2 * 16 + sig

----------------------------------------------------------------------------
(* Claims about the stream codec (StreamSpec) *)

\* the first two lines of the stream, as the input holds them
HeaderLine == read_line(stream, 1)
CommentLine == read_line(stream, HeaderLine.next)
HeaderReadable == HeaderLine.ok /\ CommentLine.ok

\* the text Geolocation1.03 followed by white space occurs in the line
NamesVersion103(line) ==
    LET lit == Str(<<"G", "e", "o", "l", "o", "c", "a", "t", "i", "o", "n", "1", ".", "0", "3">>)
    IN  \E i \in 1..Len(line) :
            /\ i + Len(lit) <= Len(line)
            /\ SubSeq(line, i, i + Len(lit) - 1) = lit
            /\ IsRegexSpace(line[i + Len(lit)])

\* some part of the line reads Geolocation<digits><any><digits><spaces><digits>
FitsHeaderPattern(line) ==
    \E i \in 1..Len(line), a \in 1..Len(line), b \in 1..Len(line), w \in 1..Len(line) :
        LET g == 11 IN
        /\ i + g + a + b + w + 1 <= Len(line)
        /\ SubSeq(line, i, i + g - 1) = Str(<<"G", "e", "o", "l", "o", "c", "a", "t", "i", "o", "n">>)
        /\ \A k \in 0..(a - 1) : IsDigit(line[i + g + k])
        /\ \A k \in 1..b : IsDigit(line[i + g + a + k])
        /\ \A k \in 1..w : IsRegexSpace(line[i + g + a + b + k])
        /\ IsDigit(line[i + g + a + b + w + 1])

HeaderPassed ==
    \/ rf_pc \in {"cities", "countries", "regions", "subregions", "timezones", "features", "ok", "abort"}
    \/ (rf_pc = "err" /\ rf_error = "IoError" /\ HeaderReadable)

C7_ReadFromReturns == <>(rf_pc \in {"ok", "err"})

IsEmptyDatabase(d) ==
    /\ d.cities = <<>> /\ d.countries = <<>> /\ d.regions = <<>>
    /\ d.subregions = <<>> /\ d.timezones = <<>> /\ d.features = <<>>

\* C8: a database with zero cities and five empty tables, written by write_to
\* and read back by read_from, gives a database equal to the original.
C8_EmptyRoundTrip ==
    (pass = 2 /\ IsEmptyDatabase(written)) =>
        /\ rf_pc \notin {"err", "abort"}
        /\ rf_pc = "ok" => Database = written

\* an empty database with a comment has been written and read back
C8_Witness ==
    /\ pass = 2
    /\ rf_pc = "ok"
    /\ IsEmptyDatabase(written)
    /\ written.comment # <<>>

----------------------------------------------------------------------------
(* Claims about the coordinate parser (PosSpec) *)

\* the two halves of a text written with one comma
HasOneComma == Cardinality({i \in 1..Len(pos_text) : pos_text[i] = 44}) = 1
LatHalfText == Split(pos_text)[1]
LongHalfText == Split(pos_text)[2]
Holds(t, c) == \E i \in 1..Len(t) : t[i] = c

\* the same text without its minus signs and with N for S and E for W: the
\* spelling of the magnitudes
Plain(t) ==
    LET kept == SelectSeq(t, LAMBDA c : c # 45)
    IN  [i \in 1..Len(kept) |-> IF kept[i] = 83 THEN 78 ELSE IF kept[i] = 87 THEN 69 ELSE kept[i]]

Magnitude == parse_pos_string(Plain(pos_text))

\* C13: in all three grammars a leading '-' together with S or W is rejected;
\* a leading '-' with N, E or no letter, or no sign with S or W, gives the
\* negated magnitude; no sign with N, E or no letter gives the magnitude.
C13_SignAndHemisphere ==
    (pos_pc = "done" /\ HasOneComma) =>
        /\ (\/ Holds(LatHalfText, 45) /\ Holds(LatHalfText, 83)
            \/ Holds(LongHalfText, 45) /\ Holds(LongHalfText, 87)) => ~pos_result.ok
        /\ (/\ Magnitude.ok
            /\ ~(Holds(LatHalfText, 45) /\ Holds(LatHalfText, 83))
            /\ ~(Holds(LongHalfText, 45) /\ Holds(LongHalfText, 87))) =>
              /\ pos_result.ok
              /\ pos_result.lat = IF Holds(LatHalfText, 45) \/ Holds(LatHalfText, 83)
                                  THEN FracNeg(Magnitude.lat) ELSE Magnitude.lat
              /\ pos_result.long = IF Holds(LongHalfText, 45) \/ Holds(LongHalfText, 87)
                                   THEN FracNeg(Magnitude.long) ELSE Magnitude.long

\* a degree-minutes-seconds text with '-' and N gave the negated magnitude
C13_Witness ==
    /\ pos_pc = "done"
    /\ pos_result.ok
    /\ pos_result.grammar = "dms"
    /\ HasOneComma
    /\ Holds(LatHalfText, 45)
    /\ Holds(LatHalfText, 78)
    /\ pos_result.lat.num < 0
    /\ pos_result.lat = FracNeg(Magnitude.lat)

\* the texts of the inputs whose minutes, seconds or magnitudes are out of range
MinutesOutOfRange ==
    {DMText(st, s1, d1, N60, l1, s2, d2, N236, l2) :
        st \in Styles, s1 \in Signs, s2 \in Signs, d1 \in {N48, N90}, d2 \in {N123, N180},
        l1 \in LatLetterInputs, l2 \in LongLetterInputs}
    \cup {DMSText(st, s1, d1, N60, c1, l1, s2, N123, N23, c2, l2) :
        st \in Styles, s1 \in Signs, s2 \in Signs, d1 \in {N48, N90}, c1 \in {N360, N60},
        c2 \in {N360, Str(<<"6", "0", ".", "5">>)}, l1 \in LatLetterInputs, l2 \in LongLetterInputs}

SecondsOutOfRange ==
    {DMSText(st, s1, d1, m1, N60, l1, s2, N123, N23, c2, l2) :
        st \in Styles, s1 \in Signs, s2 \in Signs, d1 \in {N48, N90}, m1 \in {N52, N60},
        c2 \in {N360, Str(<<"6", "0", ".", "5">>)}, l1 \in LatLetterInputs, l2 \in LongLetterInputs}
    \cup {DMSText(st, s1, d1, m1, c1, l1, s2, N123, N23, Str(<<"6", "0", ".", "5">>), l2) :
        st \in Styles, s1 \in Signs, s2 \in Signs, d1 \in {N48, N90}, m1 \in {N52, N60},
        c1 \in {N360, N60}, l1 \in LatLetterInputs, l2 \in LongLetterInputs}

DegreesOutOfRange ==
    {DDText(st, s1, Str(<<"9", "0", ".", "1">>), l1, s2, n2, l2) :
        st \in Styles \cup {BareStyle}, s1 \in Signs, s2 \in Signs,
        n2 \in {N12339, Str(<<"1", "8", "0", ".", "1">>)},
        l1 \in LatLetterInputs \cup {<<>>}, l2 \in LongLetterInputs \cup {<<>>}}
    \cup {DDText(st, s1, n1, l1, s2, Str(<<"1", "8", "0", ".", "1">>), l2) :
        st \in Styles \cup {BareStyle}, s1 \in Signs, s2 \in Signs,
        n1 \in {N4888, N90, Str(<<"9", "0", ".", "1">>)},
        l1 \in LatLetterInputs \cup {<<>>}, l2 \in LongLetterInputs \cup {<<>>}}
    \cup {DMText(st, s1, N90, m1, l1, s2, d2, N236, l2) :
        st \in Styles, s1 \in Signs, s2 \in Signs, m1 \in {N526, N60}, d2 \in {N123, N180},
        l1 \in LatLetterInputs, l2 \in LongLetterInputs}
    \cup {DMText(st, s1, d1, m1, l1, s2, N180, N236, l2) :
        st \in Styles, s1 \in Signs, s2 \in Signs, d1 \in {N48, N90}, m1 \in {N526, N0, N60},
        l1 \in LatLetterInputs, l2 \in LongLetterInputs}
    \cup {DMSText(st, s1, N90, m1, c1, l1, s2, N123, N23, c2, l2) :
        st \in Styles, s1 \in Signs, s2 \in Signs, m1 \in {N52, N60}, c1 \in {N360, N60},
        c2 \in {N360, Str(<<"6", "0", ".", "5">>)}, l1 \in LatLetterInputs, l2 \in LongLetterInputs}

InDegrees(v, max_abs) == ~FracLess(Whole(max_abs), v) /\ ~FracLess(v, Whole(-max_abs))

\* C14: parse_pos_string returns an error whenever minutes or seconds are
\* outside [0, 60), the latitude magnitude exceeds 90 or the longitude
\* magnitude exceeds 180; every pair it returns has latitude in [-90, 90] and
\* longitude in [-180, 180].
C14_RangeValidation ==
    pos_pc = "done" =>
        /\ pos_text \in MinutesOutOfRange \cup SecondsOutOfRange \cup DegreesOutOfRange
              => ~pos_result.ok
        /\ pos_result.ok => (InDegrees(pos_result.lat, 90) /\ InDegrees(pos_result.long, 180))

\* 90 degrees 0 minutes north, 123 degrees 23.6 minutes west was accepted
C14_Witness ==
    /\ pos_pc = "done"
    /\ pos_result.ok
    /\ pos_result.grammar = "dm"
    /\ pos_result.lat = Whole(90)
    /\ pos_text \notin MinutesOutOfRange \cup SecondsOutOfRange \cup DegreesOutOfRange

\* the spellings of Point Nemo, by the grammar that reads each
NemoDMS ==
    {DMSText(st, <<>>, N48, N52, N360, South, <<>>, N123, N23, N360, West) : st \in Styles}
    \cup {DMSText(st, Minus, N48, N52, N360, Str(<<"N">>), Minus, N123, N23, N360, Str(<<"E">>)) :
            st \in Styles}
NemoDM ==
    {DMText(st, <<>>, N48, N526, South, <<>>, N123, N236, West) : st \in Styles}
    \cup {DMText(st, Minus, N48, N526, Str(<<"N">>), Minus, N123, N236, Str(<<"E">>)) : st \in Styles}
NemoDD ==
    {DDText(st, <<>>, N4888, South, <<>>, N12339, West) : st \in Styles \cup {BareStyle}}
    \cup {DDText(st, Minus, N4888, Str(<<"N">>), Minus, N12339, Str(<<"E">>)) :
            st \in Styles \cup {BareStyle}}
    \cup {DDText(st, Minus, N4888, <<>>, Minus, N12339, <<>>) : st \in Styles \cup {BareStyle}}

\* |v - (-n / 100)| <= 1 / 200
About(v, n) ==
    LET d == FracAdd(v, Frac64(n, 100))
    IN  ~FracLess(Frac64(1, 200), d) /\ ~FracLess(d, Frac64(-1, 200))

\* C15: the degree-minute-second, degree-minute and decimal-degree spellings
\* of Point Nemo, with symbol or letter unit tokens and with a hemisphere
\* letter or a leading minus sign, all parse to about -48.88, -123.39, each
\* text decided by the first of the grammars DD, DM, DMS that matches all of it.
C15_SamePosition ==
    pos_pc = "done" =>
        /\ pos_text \in NemoDMS \cup NemoDM \cup NemoDD =>
              /\ pos_result.ok
              /\ About(pos_result.lat, 4888)
              /\ About(pos_result.long, 12339)
        /\ pos_text \in NemoDD => pos_result.grammar = "dd"
        /\ pos_text \in NemoDM => pos_result.grammar = "dm"
        /\ pos_text \in NemoDMS => pos_result.grammar = "dms"
        /\ pos_result.grammar =
              (IF MatchFrom(regex_dd, 1, pos_text, 1).ok THEN "dd"
               ELSE IF MatchFrom(regex_dm, 1, pos_text, 1).ok THEN "dm"
               ELSE IF MatchFrom(regex_dms, 1, pos_text, 1).ok THEN "dms"
               ELSE "none")

\* the spelling 48deg 52min 36.0sec S, 123deg 23min 36.0sec W was read by the
\* third grammar
C15_Witness ==
    /\ pos_pc = "done"
    /\ pos_text = DMSText(WordStyle, <<>>, N48, N52, N360, South, <<>>, N123, N23, N360, West)
    /\ pos_result.ok
    /\ pos_result.grammar = "dms"

----------------------------------------------------------------------------
(* Claims about the command line (CliSpec) *)

\* C16: after a successful add or remove command the modified database is
\* written to the path given with --out whenever --out is given; the source
\* file is written only when --overwrite is set; when neither is given nothing
\* is written and the process exits with an error.
C16_WriteOutPolicy ==
    (cli_pc = "exit" /\ cli_exit.at = "write") =>
        /\ cli_args.out_file.some =>
              /\ cli_args.out_file.path \in cli_written
              /\ fs[cli_args.out_file.path] = FileOfDatabase(Database)
        /\ cli_args.in_file \in cli_written => cli_args.overwrite
        /\ (~cli_args.out_file.some /\ ~cli_args.overwrite) =>
              (cli_written = {} /\ cli_exit.code = "1")

----------------------------------------------------------------------------
(* Claims about the store (Spec) *)

\* C9: remove_city(index) with index >= the number of cities fails with an
\* error reported to the caller, does not crash the process, and leaves the
\* city list unchanged, after any sequence of add_city and remove_city calls.
C9_RemoveOutOfRange ==
    (last.op = "remove_city" /\ last.arg >= Len(before)) =>
        /\ last.outcome = "Err"
        /\ alive
        /\ cities = before

\* C10: subregion_parents(ix) and region_parent(ix) report a failure to the
\* caller, and do not abort the process, when no city of the current list
\* references subregion ix or region ix.
C10_LookupWithoutCity ==
    /\ (last.op = "subregion_parents"
            /\ \A i \in 1..Len(cities) : cities[i].subregion_ix # last.arg)
          => (last.outcome = "Err" /\ alive)
    /\ (last.op = "region_parent"
            /\ \A i \in 1..Len(cities) : cities[i].region_ix # last.arg)
          => (last.outcome = "Err" /\ alive)

\* the number of comma-separated segments of the last query
SegmentCount == Len(Split(last.query))

\* C11: a query with more segments than the entity supports (more than 4 for
\* cities, 3 for subregions, 2 for regions) is an input error returned to the
\* caller, not a process abort.
C11_TooManySegments ==
    (\/ last.op = "find_matching_cities" /\ SegmentCount > 4
     \/ last.op = "find_matching_subregions" /\ SegmentCount > 3
     \/ last.op = "find_matching_regions" /\ SegmentCount > 2)
        => (last.outcome = "Err" /\ alive)

\* segment k of the last query: a query of several segments is read without the
\* white space around each segment, a query of one segment is read as it is
Segment(k) ==
    IF SegmentCount = 1 THEN Split(last.query)[k] ELSE Trim(Split(last.query)[k])

\* the table entry an index names, if it names one
Ancestor(table, ix) == IF ix < Len(table) THEN {table[ix + 1]} ELSE {}

\* the later segments of a city query are contained in the city's ancestors:
\* 2 segments = [name, country], 3 = [name, region, country],
\* 4 = [name, subregion, region, country]
AncestorsContain(c) ==
    /\ SegmentCount >= 2 =>
          \E a \in Ancestor(countries, c.country_ix) : Contains(a, Segment(SegmentCount))
    /\ SegmentCount >= 3 =>
          \E a \in Ancestor(regions, c.region_ix) : Contains(a, Segment(SegmentCount - 1))
    /\ SegmentCount >= 4 =>
          \E a \in Ancestor(subregions, c.subregion_ix) : Contains(a, Segment(2))

\* C12: find_matching_cities returns exactly the indices of the cities whose
\* name equals the first segment and whose ancestors contain the later
\* segments as substrings (2 = [name, country], 3 = [name, region, country],
\* 4 = [name, subregion, region, country]).
C12_CityQuery ==
    (last.op = "find_matching_cities" /\ SegmentCount <= 4) =>
        /\ last.outcome = "Ok"
        /\ {last.value[i] : i \in 1..Len(last.value)}
             = {i - 1 : i \in {i \in 1..Len(cities) :
                                  cities[i].name = Segment(1) /\ AncestorsContain(cities[i])}}
        /\ \A i, j \in 1..Len(last.value) : i < j => last.value[i] < last.value[j]

\* the indices of the entries of a table whose name equals the one-segment query
NamedByQuery(table) == {i - 1 : i \in {i \in 1..Len(table) : table[i] = last.query}}

\* C18: a one-segment query of find_matching_subregions or find_matching_regions
\* returns exactly the indices of the table entries whose name equals the
\* query, also for entries no city of the current list references, and
\* returns without aborting.
C18_OneSegmentTableQuery ==
    /\ (last.op = "find_matching_subregions" /\ SegmentCount = 1) =>
          /\ last.outcome = "Ok" /\ alive
          /\ {last.value[i] : i \in 1..Len(last.value)} = NamedByQuery(subregions)
    /\ (last.op = "find_matching_regions" /\ SegmentCount = 1) =>
          /\ last.outcome = "Ok" /\ alive
          /\ {last.value[i] : i \in 1..Len(last.value)} = NamedByQuery(regions)

\* the positions of the cities of cs that reference subregion ix / region ix
InSubregion(cs, ix) == {i \in 1..Len(cs) : cs[i].subregion_ix = ix}
InRegion(cs, ix) == {i \in 1..Len(cs) : cs[i].region_ix = ix}

\* the lowest position of a non-empty set of positions
Lowest(S) == CHOOSE i \in S : \A j \in S : i <= j

\* C19: subregion_parents(ix) returns the region_ix, country_ix and timezone_ix
\* of the lowest-positioned city whose subregion_ix is ix, region_parent(ix) the
\* country_ix of the lowest-positioned city whose region_ix is ix; add_city
\* appends at the end, remove_city keeps the order of the remaining cities, so
\* an added city changes a lookup only when no earlier city matched.
C19_FirstMatchLookup ==
    /\ (last.op = "subregion_parents" /\ InSubregion(cities, last.arg) # {}) =>
          LET c == cities[Lowest(InSubregion(cities, last.arg))]
          IN  /\ last.outcome = "Ok"
              /\ last.value = <<c.region_ix, c.country_ix, c.timezone_ix>>
    /\ (last.op = "region_parent" /\ InRegion(cities, last.arg) # {}) =>
          /\ last.outcome = "Ok"
          /\ last.value = <<cities[Lowest(InRegion(cities, last.arg))].country_ix>>
    /\ last.op = "add_city" =>
          /\ Len(cities) = Len(before) + 1
          /\ SubSeq(cities, 1, Len(before)) = before
          /\ \A ix \in LookupInputs :
                /\ InSubregion(before, ix) # {} =>
                      subregion_parents(cities, ix) = subregion_parents(before, ix)
                /\ InRegion(before, ix) # {} =>
                      region_parent(cities, ix) = region_parent(before, ix)
    /\ (last.op = "remove_city" /\ last.outcome = "Ok") =>
          /\ Len(cities) = Len(before) - 1
          /\ \A i \in 1..Len(cities) :
                cities[i] = IF i <= last.arg THEN before[i] ELSE before[i + 1]

\* two cities of the list reference the subregion looked up and differ in region
C19_Witness ==
    /\ last.op = "subregion_parents" /\ last.outcome = "Ok"
    /\ \E i, j \in InSubregion(cities, last.arg) :
          i < j /\ cities[i].region_ix # cities[j].region_ix

\* C20: add_city and remove_city change only the city list: the comment and the
\* countries, regions, subregions, timezones and features tables stay as they
\* were loaded; add_city validates no index and always succeeds.
C20_OnlyCitiesChange ==
    [][/\ UNCHANGED <<comment, countries, regions, subregions, timezones, features>>
       /\ last'.op = "add_city" =>
             /\ last'.outcome = "Ok" /\ alive'
             /\ Len(cities') = Len(cities) + 1
             /\ SubSeq(cities', 1, Len(cities)) = cities]_vars

\* a city whose country index names no country has been added
C20_Witness ==
    /\ last.op = "add_city" /\ last.outcome = "Ok"
    /\ cities[Len(cities)].country_ix >= Len(countries)
    /\ Len(cities) = Len(before) + 1

\* C22: "list countries" prints exactly one line per entry of the countries
\* table, in table order, the name part of each entry, however many entries
\* the regions table has.
C22_ListCountries ==
    (cli_pc = "exit" /\ cli_args.command.kind = "list"
                     /\ cli_args.command.entry_type = "countries") =>
        /\ cli_exit.code = "0"
        /\ cli_stdout = [i \in 1..Len(countries) |->
                            SubSeq(countries[i], 3, Len(countries[i]))]

\* the number of entries a find returned, none when it did not return
Matches(found) == IF found.outcome = "Ok" THEN Len(found.value) ELSE 0

\* an add or remove command one of whose arguments does not resolve to exactly
\* one value in database d
Unresolved(d, c) ==
    \/ /\ c.kind = "remove"
       /\ Matches(find_matching_cities(d, c.name)) # 1
    \/ /\ c.kind = "add"
       /\ \/ ~parse_pos_string(c.position).ok
          \/ Matches(find_matching_subregions(d, c.sub_region)) # 1
          \/ c.region.some /\ Matches(find_matching_regions(d, c.region.text)) # 1
          \/ c.country.some /\ Matches(find_matching_countries(d, c.country.text)) # 1
          \/ c.timezone.some /\ Matches(find_matching_timezones(d, c.timezone.text)) # 1
          \/ Matches(find_matching_features(d, c.feature_type)) # 1
          \/ ~parse_population_string(c.population).ok

\* C23: a file is created or written only after an add or remove command has
\* changed the in-memory database: info, list and find never write, and a
\* remove whose query matches zero or several cities, or an add one of whose
\* arguments does not resolve to exactly one value, ends the process with an
\* error before any file is created or truncated.
C23_WriteOnlyAfterChange ==
    [][/\ (fs' # fs \/ cli_written' # cli_written) =>
             /\ cli_pc = "write"
             /\ cli_args.command.kind \in {"add", "remove"}
             /\ Database # fs[cli_args.in_file].db
       /\ (cli_pc = "loaded" /\ cli_args.command.kind \in {"info", "list", "find"}) =>
             (cli_pc' = "exit" /\ UNCHANGED <<fs, cli_written>>)
       /\ (cli_pc = "loaded" /\ Unresolved(Database, cli_args.command)) =>
             /\ cli_pc' = "exit"
             /\ cli_exit'.code # "0"
             /\ UNCHANGED <<fs, cli_written, dbVars>>]_vars

\* an add whose country option matches two countries has ended with an error
\* and no file written, and elsewhere a resolved add reaches the write
C23_Witness ==
    /\ cli_pc = "exit"
    /\ cli_args.command.kind = "add"
    /\ cli_args.command.country.some
    /\ Matches(find_matching_countries(Database, cli_args.command.country.text)) = 2
    /\ Matches(find_matching_subregions(Database, cli_args.command.sub_region)) = 1
    /\ cli_exit = [code |-> "1", at |-> "command"]
    /\ cli_written = {}

====
